---- MODULE Spec2Model ----
(***************************************************************************)
(* A model of the Historian video compilation editor                       *)
(* (src/video_compilation_editor.py): the media item model and its preview *)
(* signature, the edit dialogs, the task runner of VideoCompilationEditor   *)
(* (submit / cancel / completion delivery), the ProcessingThread and the    *)
(* ProcessingWorker pipelines.                                              *)
(*                                                                         *)
(* Times are integers in tenths of a second.  Python values that the code   *)
(* tests for truth (None, 0, "", []) are modelled by the constants NoFile,  *)
(* 0 and the empty sequence.                                                *)
(***************************************************************************)
EXTENDS Integers, Sequences, FiniteSets, TLC

\* ---------------------------------------------------------------- bounds

\* media items that can be imported during one run
NItems == 2
\* job submissions that start a ProcessingThread during one run
MaxJobs == 3
\* music track objects that can be created during one run
MaxTracks == 2
\* effects one item can carry
MaxEffects == 2
\* job submissions that start a ProcessingThread in the runs of the whole
\* editor
SessionJobs == 2
\* changes made by dialog handlers in one run of the whole editor
MaxEdits == 2

ItemIds == 1..NItems
JobIds == 1..MaxJobs
TrackIds == 1..MaxTracks

\* ------------------------------------------------------- program constants

\* the size sanity threshold "> 1000" bytes used for every output check
SanitySize == 1000
\* MediaItem.display_duration default (5.0 s), in tenths of a second
DefaultImageDuration == 50
\* probed duration of every imported video in the model (tenths of a second)
ProbedDuration == 30
\* the clamp step of the trim sliders (0.1 s), in tenths of a second
TrimStep == 1

\* --------------------------------------------------------------- variables

VARIABLES
    clip_list,                  \* the QListWidget rows: a sequence of item ids
    item,                       \* the MediaItem objects, by id
    track,                      \* the MusicTrack objects, by id
    music_tracks,               \* VideoCompilationEditor.music_tracks (track ids)
    is_processing,
    thread_active,
    processing_thread,          \* id of the newest ProcessingThread, 0 = None
    preview_all_cache,
    has_pending_music_changes,
    preview_file,               \* the editor's preview_file (what the player got)
    progress_dialog,            \* TRUE while self.progress_dialog is set
    preview_all_btn,            \* the slot the Preview All button is connected to
    dlg,                        \* the modal dialog that is open, if any
    gui_wait,                   \* thread the GUI thread is blocked on in wait()
    thr,                        \* the ProcessingThread objects, by job id
    mq,                         \* queued signal deliveries to the GUI thread
    disk,                       \* files present: a set of <<name, size>>
    hist,                       \* history of the run, read only by the properties
    pf                          \* inputs and outputs of the pure functions

vars == <<clip_list, item, track, music_tracks, is_processing, thread_active,
          processing_thread, preview_all_cache, has_pending_music_changes,
          preview_file, progress_dialog, preview_all_btn, dlg, gui_wait, thr,
          mq, disk, hist, pf>>

guiVars == <<clip_list, music_tracks, is_processing, thread_active,
             processing_thread, preview_all_cache, has_pending_music_changes,
             preview_file, progress_dialog, preview_all_btn, dlg, gui_wait>>

\* ------------------------------------------------------------------- files

NoFile == [dir |-> "none", kind |-> "none", a |-> 0, b |-> <<>>]

\* sizes of a file on disk relative to the sanity threshold
Big == SanitySize + 1
Small == SanitySize

Exists(d, f) == \E e \in d : e[1] = f
GetSize(d, f) == IF Exists(d, f) THEN (CHOOSE e \in d : e[1] = f)[2] ELSE 0
Unlink(d, f) == {e \in d : e[1] # f}
WriteFile(d, f, size) == Unlink(d, f) \cup {<<f, size>>}
UnlinkAll(d, fs) == {e \in d : e[1] \notin fs}
\* os.path.exists(f) and os.path.getsize(f) > 1000
ValidFile(d, f) == Exists(d, f) /\ GetSize(d, f) > SanitySize

SeqToSet(s) == {s[k] : k \in 1..Len(s)}

\* -------------------------------------------------------------- MediaItem

\* MediaItem.__init__ followed by VideoClip.__init__ with a successful probe
NewVideoClip ==
    [is_image |-> FALSE, display_duration |-> DefaultImageDuration,
     start_time |-> 0, end_time |-> ProbedDuration, duration |-> ProbedDuration,
     rotation |-> 0, manual_rotation |-> 0, preview_file |-> NoFile,
     preview_status |-> "none", effects |-> <<>>, playback_speed |-> 100,
     has_pending_changes |-> FALSE]

\* MediaItem.__init__ followed by ImageItem.__init__ with a successful probe
NewImageItem ==
    [is_image |-> TRUE, display_duration |-> DefaultImageDuration,
     start_time |-> 0, end_time |-> DefaultImageDuration,
     duration |-> DefaultImageDuration,
     rotation |-> 0, manual_rotation |-> 0, preview_file |-> NoFile,
     preview_status |-> "none", effects |-> <<>>, playback_speed |-> 100,
     has_pending_changes |-> FALSE]

\* VideoEffect("filter", {"name": n}), as built by EffectsDialog.apply_filter
FilterEffect(n) == [effect_type |-> "filter", name |-> n]

\* the modulus of "hash(effects_str) % 10000"
HashMod == 10000

\* a character code standing for an effect type inside effects_str
TypeCode(t) == IF t = "filter" THEN 6 ELSE IF t = "speed" THEN 5 ELSE 1

\* hash("_".join(e.effect_type for e in effects)) % 10000.  Python's string
\* hash is seeded per process; a fixed polynomial hash of the joined string
\* stands for it.  The joined string holds the effect TYPES only.
RECURSIVE StrHash(_)
StrHash(types) ==
    IF types = <<>> THEN 7
    ELSE (31 * StrHash(SubSeq(types, 1, Len(types) - 1))
          + TypeCode(types[Len(types)])) % HashMod

EffectTypes(effects) == [k \in 1..Len(effects) |-> effects[k].effect_type]

\* effects_hash: "" for no effects, "_fx<hash>" otherwise (-1 stands for "")
EffectsHash(effects) ==
    IF effects = <<>> THEN -1 ELSE StrHash(EffectTypes(effects))

\* the slider percentages p for which int((p / 100.0) * 100) is p - 1 in IEEE
\* double arithmetic (playback_speed is stored as p / 100.0)
TruncatingSpeeds ==
    {29, 57, 58, 113, 114, 115, 116, 201, 203, 205, 207, 226, 228, 230, 232,
     251, 253, 255}

\* int(self.playback_speed * 100)
SpeedStr(p) == IF p \in TruncatingSpeeds THEN p - 1 ELSE p

\* "self.end_time or self.duration"
EndOrDuration(it) == IF it.end_time # 0 THEN it.end_time ELSE it.duration

\* MediaItem.get_preview_filename: the name parts that follow the base name
\* and the item id
Signature(it) ==
    IF it.is_image
    THEN <<1, it.display_duration, it.manual_rotation, EffectsHash(it.effects)>>
    ELSE <<0, it.start_time, EndOrDuration(it), it.manual_rotation,
           EffectsHash(it.effects), SpeedStr(it.playback_speed)>>

get_preview_filename(id, it) ==
    [dir |-> "PREVIEW_DIR", kind |-> "preview", a |-> id, b |-> Signature(it)]

\* MediaItem.invalidate_preview: the item afterwards
invalidate_preview(it) ==
    [it EXCEPT !.preview_file = NoFile, !.preview_status = "none",
               !.has_pending_changes = TRUE]

\* MediaItem.invalidate_preview: the disk afterwards
invalidate_preview_disk(d, it) ==
    IF it.preview_file # NoFile /\ Exists(d, it.preview_file)
    THEN Unlink(d, it.preview_file) ELSE d

\* the fields of an item that decide what is rendered
RenderFields(it) ==
    <<it.start_time, it.end_time, it.display_duration, it.manual_rotation,
      it.playback_speed, it.effects>>

\* ------------------------------------------------- results and job threads

\* what a worker function returns: a Python str that is a message
\* ("Aborted", "Error: ..."), a str that is a path, or a (path, duration) tuple
NoResult == [tag |-> "none", text |-> "", file |-> NoFile, dur |-> 0]
Msg(t) == [tag |-> "msg", text |-> t, file |-> NoFile, dur |-> 0]
PathResult(f) == [tag |-> "path", text |-> "", file |-> f, dur |-> 0]
TupleResult(f, d) == [tag |-> "tuple", text |-> "", file |-> f, dur |-> d]

Aborted == Msg("Aborted")

\* the messages of the worker functions that begin with "Error"
ErrorPrefixed ==
    {"Error: ffmpeg process failed with code",
     "Error: Created preview file is invalid",
     "Error: exception",
     "Error: Failed to create preview output",
     "Error: Failed to create combined preview",
     "Error: No valid media files could be processed",
     "Error: Failed to create output file"}

\* the messages of the worker functions that do not begin with "Error"
OtherFailures == {"No items to process", "Failed to create any valid previews"}

\* isinstance(result, str) and result.startswith("Error")
StartsWithError(r) == r.tag = "msg" /\ r.text \in ErrorPrefixed

\* the files a job creates in the scratch area, named by the job
TempPreview(j, k) == [dir |-> "TEMP_DIR", kind |-> "temp_preview", a |-> j, b |-> <<k>>]
OutputFile(j) == [dir |-> "TEMP_DIR", kind |-> "preview_all", a |-> j, b |-> <<>>]
FileList(j) == [dir |-> "TEMP_DIR", kind |-> "files", a |-> j, b |-> <<>>]
TempMusic(j) == [dir |-> "TEMP_DIR", kind |-> "temp_music", a |-> j, b |-> <<>>]
FinalOutput(j) == [dir |-> "TEMP_DIR", kind |-> "preview_all_music", a |-> j, b |-> <<>>]
FallbackFile(j) == [dir |-> "TEMP_DIR", kind |-> "fallback_preview", a |-> j, b |-> <<>>]
ExportTemp(j) == [dir |-> "TEMP_DIR", kind |-> "export_dir", a |-> j, b |-> <<>>]
ExportPart(j, k) == [dir |-> "TEMP_DIR", kind |-> "export_part", a |-> j, b |-> <<k>>]
ExportList(j) == [dir |-> "TEMP_DIR", kind |-> "export_files", a |-> j, b |-> <<>>]
ExportMusic(j) == [dir |-> "TEMP_DIR", kind |-> "export_music", a |-> j, b |-> <<>>]
\* the path the user chooses in the save dialog of export
OutputPath == [dir |-> "USER", kind |-> "export", a |-> 0, b |-> <<>>]

ExportKinds == {"export_dir", "export_part", "export_files", "export_music"}

\* shutil.rmtree(export_temp)
RmTreeExport(d, j) ==
    {e \in d : ~(e[1].dir = "TEMP_DIR" /\ e[1].a = j /\ e[1].kind \in ExportKinds)}

\* a ProcessingThread with its ProcessingWorker; hung: the external encoder
\* the worker runs has stopped for good, it writes no line and never exits;
\* lingering: a subprocess of the worker was sent terminate(), was not waited
\* for and has not exited yet
NoThread ==
    [state |-> "none", task |-> "none", items |-> <<>>, tracks |-> <<>>,
     abort |-> FALSE, pc |-> "none", i |-> 0, valid |-> <<>>, name |-> NoFile,
     outf |-> NoFile, total |-> 0, manifest |-> <<>>, result |-> NoResult,
     hung |-> FALSE, lingering |-> FALSE]

\* ProcessingThread(self); setup_task(task, args); worker.music_tracks = ...; start()
NewThread(task, items, tracks) ==
    [NoThread EXCEPT !.state = "running", !.task = task, !.items = items,
                     !.tracks = tracks,
                     !.pc = IF task = "preview_item" THEN "cp_begin"
                            ELSE IF task = "preview_all" THEN "pa_top"
                            ELSE "ex_top",
                     !.i = 1]

\* process.terminate() with no wait() after it: SIGTERM is sent and the
\* worker goes on
terminate(th) == [th EXCEPT !.lingering = TRUE]

\* the worker after a poll loop ended: at the loop's time limit the subprocess
\* was terminated, otherwise poll() saw its end
Stopped(th, ev) == IF ev = "timeout" THEN terminate(th) ELSE th

\* a subprocess that was sent terminate() exits
Reap(j) ==
    /\ thr[j].lingering
    /\ thr' = [thr EXCEPT ![j].lingering = FALSE]
    /\ UNCHANGED <<clip_list, item, track, music_tracks, is_processing,
                   thread_active, processing_thread, preview_all_cache,
                   has_pending_music_changes, preview_file, progress_dialog,
                   preview_all_btn, dlg, gui_wait, mq, disk, hist, pf>>

Running == {j \in DOMAIN thr : thr[j].state = "running"}
Created == {j \in DOMAIN thr : thr[j].state # "none"}
NextJob == Cardinality(Created) + 1

\* a faulty variant of on_worker_finished that reports the result on the
\* error signal as well; C2 tells it from the code
on_worker_finished_both(j, task, r) ==
    <<[job |-> j, sig |-> "finished", task |-> task, result |-> r],
      [job |-> j, sig |-> "error", task |-> task, result |-> r]>>

\* ProcessingThread.on_worker_finished: the signals run() posts to the GUI
\* thread when the worker function has returned r
on_worker_finished(j, task, r) ==
    <<[job |-> j, sig |-> "finished", task |-> task, result |-> r]>>

\* ProcessingThread.run once the worker function has returned r: the thread
\* ends and its completion signal is queued for the GUI thread
Return(j, th, r, h) ==
    /\ thr' = [thr EXCEPT ![j] =
                 [NoThread EXCEPT !.state = "finished", !.task = th.task,
                                  !.items = th.items, !.tracks = th.tracks,
                                  !.abort = th.abort, !.pc = "done",
                                  !.name = th.name, !.result = r]]
    /\ mq' = mq \o on_worker_finished(j, th.task, r)
    /\ hist' = [h EXCEPT !.emitted[j] = @ + Len(on_worker_finished(j, th.task, r))]

\* the thread goes on to another place of its worker function
Goto(j, th, h) ==
    /\ thr' = [thr EXCEPT ![j] = th]
    /\ mq' = mq
    /\ hist' = h

\* self.progress.emit(p, text), once for each element of ps: the percentages
\* job j has emitted; fb marks the message of a step to a fallback
Pct(p) == [p |-> p, fb |-> FALSE]
Emit(h, j, ps) == [h EXCEPT !.progress[j] = @ \o ps]

\* int((i / total_items) * span) + base for the i-th item of n, counted from 1
ItemPercent(i, n, span, base) == (((i - 1) * span) \div n) + base

\* history: a poll tick with the abort flag set happened while a subprocess was running
\* the return code of a subprocess that terminate() stopped (-SIGTERM)
Terminated == 0 - 15

\* history: the return code of an encoder whose output file was taken as an
\* artifact or as an intermediate ("fail": it ended with a nonzero code,
\* "timeout": the loop's time limit passed and it was terminated)
ReturnCode(ev) ==
    IF ev = "fail" THEN 1 ELSE IF ev = "timeout" THEN Terminated ELSE 0
UsedOutput(h, used, rc) == IF used THEN [h EXCEPT !.used_rc = @ \cup {rc}] ELSE h

Ticked(h, j, th) == IF th.abort THEN [h EXCEPT !.ticked[j] = TRUE] ELSE h

\* what an encoder subprocess left at its output path when it ended or was
\* terminated: nothing, or a file of some size
Outs == {0, SanitySize - 1, SanitySize, SanitySize + 1}
ApplyOut(d, f, out) == IF out = 0 THEN d ELSE WriteFile(d, f, out)

\* ------------------------------------------ ProcessingWorker.create_preview

\* the cache test of create_preview: the item's preview file is attached,
\* exists and passes the size sanity check
create_preview_cached(d, it) ==
    /\ it.preview_file # NoFile
    /\ Exists(d, it.preview_file)
    /\ GetSize(d, it.preview_file) > SanitySize

\* a faulty variant of the success path that marks the item ready without
\* attaching the file; C5 tells it from the code
create_preview_success_detached(it, name) ==
    [it EXCEPT !.preview_status = "ready", !.has_pending_changes = FALSE]

\* the item after a successful encode in create_preview
create_preview_success(it, name) ==
    [it EXCEPT !.preview_file = name, !.preview_status = "ready",
               !.has_pending_changes = FALSE]

\* history: the artifact of the last successful encode of item id is still
\* on disk with a sane size and the item's rendering fields are the ones it
\* was encoded with
FreshArtifact(h, d, id) ==
    /\ h.made[id].file # NoFile
    /\ ValidFile(d, h.made[id].file)
    /\ h.made[id].fields = RenderFields(item[id])

\* create_preview up to the start of the encoder subprocess
CPBegin(j) ==
    /\ thr[j].state = "running" /\ thr[j].pc = "cp_begin"
    /\ LET th == thr[j]
           id == th.items[1]
           it == item[id]
           stale == it.preview_file # NoFile /\ Exists(disk, it.preview_file)
       IN IF th.abort
          THEN /\ Return(j, th, Aborted, hist)
               /\ UNCHANGED <<item, disk>>
          ELSE IF create_preview_cached(disk, it)
          THEN /\ item' = [item EXCEPT ![id].preview_status = "ready",
                                       ![id].has_pending_changes = FALSE]
               /\ Return(j, th, PathResult(it.preview_file), hist)
               /\ UNCHANGED disk
          ELSE /\ item' = IF stale
                          THEN [item EXCEPT ![id].preview_file = NoFile,
                                            ![id].preview_status = "none"]
                          ELSE item
               /\ disk' = IF stale THEN Unlink(disk, it.preview_file) ELSE disk
               /\ Goto(j, [th EXCEPT !.pc = "cp_run",
                                     !.name = get_preview_filename(id, it)],
                       Emit([hist EXCEPT !.cp_spawns[id] = @ + 1,
                                         !.respawn = @ \/ FreshArtifact(hist, disk, id),
                                         !.spawned[id] = RenderFields(it)],
                            j, <<Pct(10)>>))
    /\ UNCHANGED <<guiVars, track, pf>>

\* a status line of the encoder without a "time=" field
NoTime == 0 - 1

\* total_sec of create_preview
total_sec(it) ==
    IF it.is_image THEN it.display_duration ELSE EndOrDuration(it) - it.start_time

\* min(int((current_sec / total_sec) * 80) + 10, 90)
LinePercent(it, t) ==
    LET pct == ((t * 80) \div total_sec(it)) + 10
    IN IF pct < 90 THEN pct ELSE 90

\* create_preview reads one status line of the running encoder; the clock
\* of the encoder never goes back, and the lines followed here are those
\* without a time and those whose time moves the percentage on
CPLine(j, out, t) ==
    /\ thr[j].state = "running" /\ thr[j].pc = "cp_run"
    /\ ~thr[j].hung
    /\ LET th == thr[j]
           id == th.items[1]
           timed == t # NoTime /\ total_sec(item[id]) > 0
           last == hist.progress[j][Len(hist.progress[j])].p
       IN IF th.abort
          THEN /\ item' = [item EXCEPT ![id].preview_status = "none"]
               /\ disk' = ApplyOut(disk, th.name, out)
               /\ Return(j, terminate(th), Aborted, Ticked(hist, j, th))
          ELSE /\ timed => LinePercent(item[id], t) > last
               /\ UNCHANGED <<item, disk>>
               /\ Goto(j, th, IF timed
                              THEN Emit(hist, j, <<Pct(LinePercent(item[id], t))>>)
                              ELSE hist)
    /\ UNCHANGED <<guiVars, track, pf>>

\* create_preview after the encoder's output has ended: process.wait(), the
\* return code and the check of the output file
CPExit(j, rc, out) ==
    /\ thr[j].state = "running" /\ thr[j].pc = "cp_run"
    /\ ~thr[j].hung
    /\ LET th == thr[j]
           id == th.items[1]
           d2 == ApplyOut(disk, th.name, out)
       IN /\ disk' = d2
          /\ IF rc # 0
             THEN /\ item' = [item EXCEPT ![id].preview_status = "error"]
                  /\ Return(j, th, Msg("Error: ffmpeg process failed with code"),
                            Emit(hist, j, <<Pct(0)>>))
             ELSE IF ValidFile(d2, th.name)
             THEN /\ item' = [item EXCEPT ![id] = create_preview_success(@, th.name)]
                  /\ Return(j, th, PathResult(th.name),
                            Emit([UsedOutput(hist, TRUE, rc) EXCEPT !.made[id] =
                                     [file |-> th.name, fields |-> hist.spawned[id]]],
                                 j, <<Pct(100)>>))
             ELSE /\ item' = [item EXCEPT ![id].preview_status = "error"]
                  /\ Return(j, th, Msg("Error: Created preview file is invalid"),
                            Emit(hist, j, <<Pct(100)>>))
    /\ UNCHANGED <<guiVars, track, pf>>

\* --------------------------------------- ProcessingWorker.process_all_clips

\* preview_duration of one item in process_all_clips
preview_duration(it) ==
    IF ~it.is_image THEN EndOrDuration(it) - it.start_time
    ELSE it.display_duration

\* the tracks of the job whose file exists (os.path.exists(track.file_path))
ValidTracks(tracks) == SelectSeq(tracks, LAMBDA t : track[t].file_ok)

\* what a poll loop sees: the subprocess still runs at this tick, it still
\* runs and the loop's time limit has passed, or it has ended
PollEvents == {"tick", "timeout", "exit"}

\* a faulty variant of append_valid that puts the new file first; C15 tells
\* it from the code
append_valid_first(valid_files, f) == <<f>> \o valid_files

\* valid_files.append(temp_preview), temp_files.append(temp_file)
append_valid(valid_files, f) == Append(valid_files, f)

\* the lines of the concat manifest, one "file '<path>'" per element of
\* valid_files in the order of the list
write_file_list(valid_files) == [n \in 1..Len(valid_files) |-> valid_files[n]]

\* the top of the item loop of process_all_clips (before the first item, the
\* start of the function): the abort check, the two progress messages and the
\* start of the item's encoder subprocess
PATop(j) ==
    /\ thr[j].state = "running" /\ thr[j].pc = "pa_top"
    /\ thr[j].i <= Len(thr[j].items)
    /\ LET th == thr[j]
           it == item[th.items[th.i]]
           n == Len(th.items)
           h == IF th.i = 1 THEN Emit(hist, j, <<Pct(5)>>) ELSE hist
       IN IF th.abort
          THEN /\ disk' = UnlinkAll(disk, SeqToSet(th.valid))
               /\ Return(j, th, Aborted, h)
          ELSE /\ disk' = disk
               /\ Goto(j, [th EXCEPT !.pc = "pa_item",
                                     !.total = @ + preview_duration(it)],
                       Emit([h EXCEPT !.enc[j] = @ + 1], j,
                            <<Pct(ItemPercent(th.i, n, 70, 5)),
                              Pct(ItemPercent(th.i, n, 60, 10))>>))
    /\ UNCHANGED <<guiVars, item, track, pf>>

\* the poll loop of one item's encoder in process_all_clips and the check of
\* the item's output; "raise" is an exception of Popen or of the loop, which
\* the try block around them catches
PAItem(j, ev, out) ==
    /\ thr[j].state = "running" /\ thr[j].pc = "pa_item"
    /\ LET th == thr[j]
           id == th.items[th.i]
           tmp == TempPreview(j, th.i)
           d2 == ApplyOut(disk, tmp, out)
       IN IF ev = "raise"
          THEN /\ UNCHANGED <<disk, item>>
               /\ Goto(j, [th EXCEPT !.pc = "pa_top", !.i = @ + 1], hist)
          ELSE IF ev # "exit" /\ th.abort
          THEN /\ disk' = UnlinkAll(d2, {tmp} \cup SeqToSet(th.valid))
               /\ item' = item
               /\ Return(j, terminate(th), Aborted, Ticked(hist, j, th))
          ELSE IF ev = "tick"
          THEN /\ UNCHANGED <<disk, item>>
               /\ Goto(j, th, hist)
          ELSE /\ disk' = d2
               /\ item' = IF ValidFile(d2, tmp)
                          THEN [item EXCEPT ![id].has_pending_changes = FALSE]
                          ELSE item
               /\ Goto(j, [th EXCEPT !.pc = "pa_top", !.i = @ + 1,
                                     !.valid = IF ValidFile(d2, tmp)
                                               THEN append_valid(@, tmp) ELSE @],
                       UsedOutput(hist, ValidFile(d2, tmp), ReturnCode(ev)))
    /\ UNCHANGED <<guiVars, track, pf>>

\* process_all_clips after the item loop: no valid file, the single clip
\* path up to its first subprocess, or the concat manifest and the start of
\* the stream-copy concat
PAAfterLoop(j) ==
    /\ thr[j].state = "running" /\ thr[j].pc = "pa_top"
    /\ thr[j].i > Len(thr[j].items)
    /\ LET th == thr[j]
           out1 == OutputFile(j)
           copied == WriteFile(disk, out1, GetSize(disk, th.valid[1]))
       IN IF th.valid = <<>>
          THEN /\ disk' = disk
               /\ Return(j, th, Msg("Failed to create any valid previews"), hist)
          ELSE IF Len(th.valid) = 1
          THEN IF th.tracks = <<>>
               THEN \* copy the clip, clean up the intermediates, return
                    /\ disk' = UnlinkAll(copied, SeqToSet(th.valid))
                    /\ Return(j, th, TupleResult(out1, th.total),
                              Emit(hist, j, <<Pct(100)>>))
               ELSE IF ValidTracks(th.tracks) = <<>>
               THEN \* no track file exists: the copy is returned as it is
                    /\ disk' = copied
                    /\ Return(j, th, TupleResult(out1, th.total),
                              Emit(hist, j, <<Pct(80)>>))
               ELSE /\ disk' = copied
                    /\ Goto(j, [th EXCEPT !.outf = out1,
                                          !.pc = IF Len(th.tracks) > 1
                                                 THEN "pa1_mix" ELSE "pa1_add"],
                            Emit(hist, j, <<Pct(80)>>))
          ELSE IF th.abort
          THEN /\ disk' = UnlinkAll(disk, SeqToSet(th.valid))
               /\ Return(j, th, Aborted, Emit(hist, j, <<Pct(80)>>))
          ELSE /\ disk' = WriteFile(disk, FileList(j), Big)
               /\ Goto(j, [th EXCEPT !.outf = out1, !.pc = "pa_concat",
                                     !.manifest = write_file_list(th.valid)],
                       Emit(hist, j, <<Pct(80)>>))
    /\ UNCHANGED <<guiVars, item, track, pf>>

\* the temp music file is removed after a successful music add only when the
\* job mixed several tracks
UnlinkMixed(d, j, th) ==
    IF Len(th.tracks) > 1 THEN Unlink(d, TempMusic(j)) ELSE d

\* single clip path: the poll loop of the music bus mix (no abort check) and
\* the check of the mixed file ("not exists or size < 1000" fails)
PA1Mix(j, ev, out) ==
    /\ thr[j].state = "running" /\ thr[j].pc = "pa1_mix"
    /\ LET th == thr[j]
           d2 == ApplyOut(disk, TempMusic(j), out)
       IN IF ev = "raise"
          THEN /\ disk' = disk
               /\ Return(j, Stopped(th, ev), TupleResult(th.outf, th.total), hist)
          ELSE IF ev = "tick"
          THEN /\ disk' = disk
               /\ Goto(j, th, Ticked(hist, j, th))
          ELSE /\ disk' = d2
               /\ IF ~Exists(d2, TempMusic(j)) \/ GetSize(d2, TempMusic(j)) < SanitySize
                  THEN Return(j, Stopped(th, ev), TupleResult(th.outf, th.total), hist)
                  ELSE Goto(j, [Stopped(th, ev) EXCEPT !.pc = "pa1_add"], hist)
    /\ UNCHANGED <<guiVars, item, track, pf>>

\* single clip path: the poll loop of the music add (no abort check), the
\* check of its output and the fall through to the copy of the clip
PA1Add(j, ev, out) ==
    /\ thr[j].state = "running" /\ thr[j].pc = "pa1_add"
    /\ LET th == thr[j]
           fin == FinalOutput(j)
           d2 == IF ev = "raise" THEN disk ELSE ApplyOut(disk, fin, out)
       IN IF ev = "tick"
          THEN /\ disk' = disk
               /\ Goto(j, th, Ticked(hist, j, th))
          ELSE IF ValidFile(d2, fin)
          THEN /\ disk' = UnlinkAll(UnlinkMixed(Unlink(d2, th.outf), j, th),
                                    SeqToSet(th.valid))
               /\ Return(j, Stopped(th, ev), TupleResult(fin, th.total),
                         Emit(hist, j, <<Pct(100)>>))
          ELSE /\ disk' = UnlinkAll(d2, SeqToSet(th.valid))
               /\ Return(j, Stopped(th, ev), TupleResult(th.outf, th.total),
                         Emit(hist, j, <<Pct(100)>>))
    /\ UNCHANGED <<guiVars, item, track, pf>>

\* the final check of the multi clip path: the combined file is returned and
\* the per-item files removed, or the first clip is copied as the fallback
PAFinal(j, th, d, outf, h) ==
    IF ValidFile(d, outf)
    THEN /\ disk' = UnlinkAll(d, SeqToSet(th.valid) \ {outf})
         /\ Return(j, th, TupleResult(outf, th.total), Emit(h, j, <<Pct(100)>>))
    ELSE /\ disk' = WriteFile(d, FallbackFile(j), GetSize(d, th.valid[1]))
         /\ Return(j, th, TupleResult(FallbackFile(j), th.total),
                   Emit(h, j, <<[p |-> 100, fb |-> TRUE]>>))

\* multi clip path: the poll loop of the stream-copy concat, the removal of
\* the manifest and the choice of what follows
PAConcat(j, ev, out) ==
    /\ thr[j].state = "running" /\ thr[j].pc = "pa_concat"
    /\ LET th == thr[j]
           d2 == Unlink(ApplyOut(disk, th.outf, out), FileList(j))
       IN IF ev # "exit" /\ th.abort
          THEN /\ disk' = UnlinkAll(d2, {th.outf} \cup SeqToSet(th.valid))
               /\ Return(j, terminate(th), Aborted, Ticked(hist, j, th))
          ELSE IF ev = "tick"
          THEN /\ disk' = disk
               /\ Goto(j, th, hist)
          ELSE IF ValidFile(d2, th.outf) /\ th.tracks # <<>>
          THEN IF Len(th.tracks) > 1 /\ ValidTracks(th.tracks) = <<>>
               THEN /\ disk' = d2
                    /\ Return(j, Stopped(th, ev), TupleResult(th.outf, th.total),
                              Emit(hist, j, <<Pct(90), Pct(100)>>))
               ELSE /\ disk' = d2
                    /\ Goto(j, [Stopped(th, ev) EXCEPT !.pc = IF Len(th.tracks) > 1
                                                 THEN "pa_mix" ELSE "pa_add"],
                            Emit(hist, j, <<Pct(90)>>))
          ELSE PAFinal(j, Stopped(th, ev), d2, th.outf, hist)
    /\ UNCHANGED <<guiVars, item, track, pf>>

\* multi clip path: the poll loop of the music bus mix (no abort check; the
\* time limit returns the combined file without music)
PAMix(j, ev, out) ==
    /\ thr[j].state = "running" /\ thr[j].pc = "pa_mix"
    /\ LET th == thr[j]
           d2 == ApplyOut(disk, TempMusic(j), out)
       IN IF ev = "raise"
          THEN PAFinal(j, Stopped(th, ev), disk, th.outf, hist)
          ELSE IF ev = "tick"
          THEN /\ disk' = disk
               /\ Goto(j, th, Ticked(hist, j, th))
          ELSE /\ disk' = d2
               /\ IF \/ ev = "timeout"
                     \/ ~Exists(d2, TempMusic(j))
                     \/ GetSize(d2, TempMusic(j)) < SanitySize
                  THEN Return(j, Stopped(th, ev), TupleResult(th.outf, th.total),
                              Emit(hist, j, <<Pct(100)>>))
                  ELSE Goto(j, [Stopped(th, ev) EXCEPT !.pc = "pa_add"], hist)
    /\ UNCHANGED <<guiVars, item, track, pf>>

\* the music input of the add step exists: the mixed file, or the file of
\* the only track (used without a check in the multi clip path)
MusicInputOk(th) == Len(th.tracks) > 1 \/ track[th.tracks[1]].file_ok

\* multi clip path: the poll loop of the music add and the final check
PAAdd(j, ev, out) ==
    /\ thr[j].state = "running" /\ thr[j].pc = "pa_add"
    /\ LET th == thr[j]
           fin == FinalOutput(j)
           d2 == IF MusicInputOk(th) THEN ApplyOut(disk, fin, out) ELSE disk
       IN IF ev = "raise"
          THEN PAFinal(j, Stopped(th, ev), disk, th.outf, hist)
          ELSE IF ev # "exit" /\ th.abort
          THEN /\ disk' = Unlink(d2, fin)
               /\ Return(j, terminate(th), Aborted, Ticked(hist, j, th))
          ELSE IF ev = "tick"
          THEN /\ disk' = disk
               /\ Goto(j, th, hist)
          ELSE IF ValidFile(d2, fin)
          THEN PAFinal(j, Stopped(th, ev), UnlinkMixed(Unlink(d2, th.outf), j, th), fin, hist)
          ELSE PAFinal(j, Stopped(th, ev), d2, th.outf, hist)
    /\ UNCHANGED <<guiVars, item, track, pf>>

\* -------------------------------------------- ProcessingWorker.export_video

\* what the poll loops of export_video see (they have no time limit)
ExportEvents == {"tick", "exit"}

\* the cleanup of export_video on abort during the item loop, the concat and
\* the re-encode: the part files and the export temp directory
ExportCleanup(d, j, th) == RmTreeExport(UnlinkAll(d, SeqToSet(th.valid)), j)

\* a faulty variant of the top of the item loop that takes an item's cached
\* preview as its part file instead of encoding the item; C10 tells it from
\* the code
EXTop_cached(j) ==
    /\ thr[j].state = "running" /\ thr[j].pc = "ex_top"
    /\ thr[j].i <= Len(thr[j].items)
    /\ LET th == thr[j]
           it == item[th.items[th.i]]
           d1 == WriteFile(disk, ExportTemp(j), 0)
       IN IF th.abort
          THEN /\ disk' = ExportCleanup(d1, j, th)
               /\ Return(j, th, Aborted, hist)
          ELSE IF create_preview_cached(disk, it)
          THEN /\ disk' = d1
               /\ Goto(j, [th EXCEPT !.i = @ + 1,
                                     !.valid = Append(@, it.preview_file)],
                       hist)
          ELSE /\ disk' = d1
               /\ Goto(j, [th EXCEPT !.pc = "ex_item"],
                       [hist EXCEPT !.enc[j] = @ + 1])
    /\ UNCHANGED <<guiVars, item, track, pf>>

\* the top of the item loop of export_video: the abort check and the start
\* of the item's encoder subprocess (every item is encoded, no cache is read)
EXTop(j) ==
    /\ thr[j].state = "running" /\ thr[j].pc = "ex_top"
    /\ thr[j].i <= Len(thr[j].items)
    /\ LET th == thr[j]
           d1 == WriteFile(disk, ExportTemp(j), 0)
           h == IF th.i = 1 THEN Emit(hist, j, <<Pct(5)>>) ELSE hist
       IN IF th.abort
          THEN /\ disk' = ExportCleanup(d1, j, th)
               /\ Return(j, th, Aborted, h)
          ELSE /\ disk' = d1
               /\ Goto(j, [th EXCEPT !.pc = "ex_item"],
                       Emit([h EXCEPT !.enc[j] = @ + 1], j,
                            <<Pct(ItemPercent(th.i, Len(th.items), 60, 5))>>))
    /\ UNCHANGED <<guiVars, item, track, pf>>

\* the poll loop of one item's encoder in export_video and the check of the
\* part file; "raise" is an exception of Popen or of the loop, which only the
\* try block around the whole function catches
EXItem(j, ev, out) ==
    /\ thr[j].state = "running" /\ thr[j].pc = "ex_item"
    /\ LET th == thr[j]
           part == ExportPart(j, th.i)
           d2 == ApplyOut(disk, part, out)
       IN IF ev = "raise"
          THEN /\ disk' = disk
               /\ Return(j, th, Msg("Error: exception"), hist)
          ELSE IF ev = "tick" /\ th.abort
          THEN /\ disk' = ExportCleanup(d2, j, th)
               /\ Return(j, terminate(th), Aborted, Ticked(hist, j, th))
          ELSE IF ev = "tick"
          THEN /\ disk' = disk
               /\ Goto(j, th, hist)
          ELSE /\ disk' = d2
               /\ Goto(j, [th EXCEPT !.pc = "ex_top", !.i = @ + 1,
                                     !.valid = IF ValidFile(d2, part)
                                               THEN append_valid(@, part) ELSE @],
                       UsedOutput(hist, ValidFile(d2, part), ReturnCode(ev)))
    /\ UNCHANGED <<guiVars, item, track, pf>>

\* export_video after the item loop: no valid part, or the manifest and the
\* start of the stream-copy concat
EXAfterLoop(j) ==
    /\ thr[j].state = "running" /\ thr[j].pc = "ex_top"
    /\ thr[j].i > Len(thr[j].items)
    /\ LET th == thr[j]
       IN IF th.valid = <<>>
          THEN /\ disk' = disk
               /\ Return(j, th, Msg("Error: No valid media files could be processed"),
                         hist)
          ELSE /\ disk' = WriteFile(disk, ExportList(j), Big)
               /\ Goto(j, [th EXCEPT !.pc = "ex_concat",
                                     !.manifest = write_file_list(th.valid)],
                       Emit(hist, j, <<Pct(70)>>))
    /\ UNCHANGED <<guiVars, item, track, pf>>

\* the poll loop of the stream-copy concat of export_video and the choice of
\* what follows: the music add, the return, or the re-encode
EXConcat(j, ev, out) ==
    /\ thr[j].state = "running" /\ thr[j].pc = "ex_concat"
    /\ LET th == thr[j]
           d2 == ApplyOut(disk, OutputPath, out)
       IN IF ev = "tick" /\ th.abort
          THEN /\ disk' = ExportCleanup(Unlink(d2, OutputPath), j, th)
               /\ Return(j, terminate(th), Aborted, Ticked(hist, j, th))
          ELSE IF ev = "tick"
          THEN /\ disk' = disk
               /\ Goto(j, th, hist)
          ELSE IF ~ValidFile(d2, OutputPath)
          THEN /\ disk' = d2
               /\ Goto(j, [th EXCEPT !.pc = "ex_reenc"],
                       Emit(hist, j, <<[p |-> 80, fb |-> TRUE]>>))
          ELSE IF ValidTracks(th.tracks) # <<>>
          THEN /\ disk' = d2
               /\ Goto(j, [th EXCEPT !.pc = "ex_music"], Emit(hist, j, <<Pct(85)>>))
          ELSE /\ disk' = RmTreeExport(d2, j)
               /\ Return(j, th, PathResult(OutputPath),
                         Emit(hist, j, IF th.tracks # <<>>
                                       THEN <<Pct(85), Pct(100)>>
                                       ELSE <<Pct(100)>>))
    /\ UNCHANGED <<guiVars, item, track, pf>>

\* the poll loop of the music add of export_video and the replacement of the
\* output by the version with music
EXMusic(j, ev, out) ==
    /\ thr[j].state = "running" /\ thr[j].pc = "ex_music"
    /\ LET th == thr[j]
           d2 == ApplyOut(disk, ExportMusic(j), out)
       IN IF ev = "raise"
          THEN /\ disk' = disk
               /\ Return(j, th, Msg("Error: exception"), hist)
          ELSE IF ev = "tick" /\ th.abort
          THEN /\ disk' = Unlink(d2, ExportMusic(j))
               /\ Return(j, terminate(th), Aborted, Ticked(hist, j, th))
          ELSE IF ev = "tick"
          THEN /\ disk' = disk
               /\ Goto(j, th, hist)
          ELSE /\ disk' = RmTreeExport(
                             IF ValidFile(d2, ExportMusic(j))
                             THEN WriteFile(d2, OutputPath, GetSize(d2, ExportMusic(j)))
                             ELSE d2, j)
               /\ Return(j, th, PathResult(OutputPath), Emit(hist, j, <<Pct(100)>>))
    /\ UNCHANGED <<guiVars, item, track, pf>>

\* the poll loop of the re-encode of export_video and the final check
EXReenc(j, ev, out) ==
    /\ thr[j].state = "running" /\ thr[j].pc = "ex_reenc"
    /\ LET th == thr[j]
           d2 == ApplyOut(disk, OutputPath, out)
       IN IF ev = "tick" /\ th.abort
          THEN /\ disk' = ExportCleanup(Unlink(d2, OutputPath), j, th)
               /\ Return(j, terminate(th), Aborted, Ticked(hist, j, th))
          ELSE IF ev = "tick"
          THEN /\ disk' = disk
               /\ Goto(j, th, hist)
          ELSE /\ disk' = RmTreeExport(d2, j)
               /\ Return(j, th,
                         IF ValidFile(d2, OutputPath) THEN PathResult(OutputPath)
                         ELSE Msg("Error: Failed to create output file"),
                         IF ValidFile(d2, OutputPath)
                         THEN Emit(hist, j, <<Pct(100)>>) ELSE hist)
    /\ UNCHANGED <<guiVars, item, track, pf>>

\* ------------------------------------------------ VideoCompilationEditor

NoSig == "None"

\* preview_all_cache as __init__ and add_music build it
EmptyCache == [signature |-> NoSig, path |-> NoFile, total_duration |-> 0]

NoDialog == [kind |-> "none", item |-> 0, slider |-> 0, tracks |-> <<>>,
             changes_made |-> FALSE]

\* no modal dialog is open and the GUI thread is not blocked: the main
\* window takes input
MainWindow == dlg.kind = "none" /\ gui_wait = 0

Rows == 1..Len(clip_list)

\* the sequence s without its k-th element (QListWidget.takeItem, del list[k])
RemoveAt(s, k) == SubSeq(s, 1, k - 1) \o SubSeq(s, k + 1, Len(s))

\* the orders of the rows of a list
Orders(s) ==
    {p \in [1..Len(s) -> SeqToSet(s)] : \A a, b \in 1..Len(s) : a # b => p[a] # p[b]}

\* VideoCompilationEditor.check_pending_changes: the value it returns
check_pending_changes(cl, its, hpm) ==
    (\E k \in 1..Len(cl) : its[cl[k]].has_pending_changes) \/ hpm

\* history: the job has changed since the last aggregate preview was played
Dirty(h) == [h EXCEPT !.agg = NoFile, !.clean_job = 0]

\* history: what the last click on Preview All led to, whether the job was
\* unchanged since the aggregate preview last played (nothing edited or
\* reordered, nothing pending, the file still there) and whether an aggregate
\* preview was played before
Request(h, kind) ==
    [h EXCEPT !.req =
        [kind |-> kind,
         fresh |-> /\ h.agg # NoFile
                   /\ Exists(disk, h.agg)
                   /\ ~check_pending_changes(clip_list, item,
                                             has_pending_music_changes),
         had |-> h.had_agg]]

NItemsMade == Len(item)

\* history: an import, the outcome of its probe and the number of files its
\* "Import Errors" box listed
Imported(h, ok, failed) ==
    [h EXCEPT !.imported = [probe_ok |-> ok, failed_files |-> failed]]

\* add_videos without the ValueError of VideoClip: the file is appended
\* whatever its probe said
add_videos_unprobed(ok) ==
    /\ MainWindow
    /\ NItemsMade < NItems
    /\ item' = Append(item, NewVideoClip)
    /\ clip_list' = Append(clip_list, NItemsMade + 1)
    /\ hist' = Imported(Dirty(hist), ok, 0)
    /\ preview_all_cache' = [preview_all_cache EXCEPT !.signature = NoSig]
    /\ UNCHANGED <<track, music_tracks, is_processing, thread_active,
                   processing_thread, has_pending_music_changes, preview_file,
                   progress_dialog, preview_all_btn, dlg, gui_wait, thr, mq,
                   disk, pf>>

\* add_videos with one file chosen; the probe of the file succeeds or
\* VideoClip raises ValueError, the file is skipped and named in the warning
add_videos(ok) ==
    /\ MainWindow
    /\ NItemsMade < NItems
    /\ IF ok
       THEN /\ item' = Append(item, NewVideoClip)
            /\ clip_list' = Append(clip_list, NItemsMade + 1)
            /\ hist' = Imported(Dirty(hist), ok, 0)
       ELSE /\ UNCHANGED <<item, clip_list>>
            /\ hist' = Imported(hist, ok, 1)
    /\ preview_all_cache' = [preview_all_cache EXCEPT !.signature = NoSig]
    /\ UNCHANGED <<track, music_tracks, is_processing, thread_active,
                   processing_thread, has_pending_music_changes, preview_file,
                   progress_dialog, preview_all_btn, dlg, gui_wait, thr, mq,
                   disk, pf>>

\* add_images with one file chosen and the duration dialog accepted with the
\* default duration
add_images(ok) ==
    /\ MainWindow
    /\ NItemsMade < NItems
    /\ IF ok
       THEN /\ item' = Append(item, NewImageItem)
            /\ clip_list' = Append(clip_list, NItemsMade + 1)
            /\ hist' = Imported(Dirty(hist), ok, 0)
       ELSE /\ UNCHANGED <<item, clip_list>>
            /\ hist' = Imported(hist, ok, 1)
    /\ preview_all_cache' = [preview_all_cache EXCEPT !.signature = NoSig]
    /\ UNCHANGED <<track, music_tracks, is_processing, thread_active,
                   processing_thread, has_pending_music_changes, preview_file,
                   progress_dialog, preview_all_btn, dlg, gui_wait, thr, mq,
                   disk, pf>>

\* delete_selected with the item of row r selected
delete_selected(r) ==
    /\ MainWindow
    /\ r \in Rows
    /\ LET it == item[clip_list[r]]
       IN disk' = IF it.preview_file # NoFile /\ Exists(disk, it.preview_file)
                  THEN Unlink(disk, it.preview_file) ELSE disk
    /\ clip_list' = RemoveAt(clip_list, r)
    /\ preview_all_cache' = [preview_all_cache EXCEPT !.signature = NoSig]
    /\ hist' = Dirty(hist)
    /\ UNCHANGED <<item, track, music_tracks, is_processing, thread_active,
                   processing_thread, has_pending_music_changes, preview_file,
                   progress_dialog, preview_all_btn, dlg, gui_wait, thr, mq, pf>>

\* randomize_order: random.shuffle leaves the rows in the order p
randomize_order(p) ==
    /\ MainWindow
    /\ Len(clip_list) > 1
    /\ p \in Orders(clip_list)
    /\ clip_list' = p
    /\ preview_all_cache' = [preview_all_cache EXCEPT !.signature = NoSig]
    /\ hist' = IF p # clip_list THEN Dirty(hist) ELSE hist
    /\ UNCHANGED <<item, track, music_tracks, is_processing, thread_active,
                   processing_thread, has_pending_music_changes, preview_file,
                   progress_dialog, preview_all_btn, dlg, gui_wait, thr, mq,
                   disk, pf>>

\* a drag and drop in the clip list followed by on_items_reordered
on_items_reordered(p) ==
    /\ MainWindow
    /\ p \in Orders(clip_list) /\ p # clip_list
    /\ clip_list' = p
    /\ preview_all_cache' = [preview_all_cache EXCEPT !.signature = NoSig]
    /\ hist' = Dirty(hist)
    /\ UNCHANGED <<item, track, music_tracks, is_processing, thread_active,
                   processing_thread, has_pending_music_changes, preview_file,
                   progress_dialog, preview_all_btn, dlg, gui_wait, thr, mq,
                   disk, pf>>

\* -------------------------------------------- EditDialog and EffectsDialog

\* history: a dialog handler has changed an item or a music track; the
\* changes are counted up to MaxEdits
Edited(h) ==
    [Dirty(h) EXCEPT !.edits = IF @ < MaxEdits THEN @ + 1 ELSE @]

\* edit_selected up to dialog.exec_(): the EditDialog opens on the item of
\* row r
edit_selected(r) ==
    /\ MainWindow
    /\ r \in Rows
    /\ dlg' = [NoDialog EXCEPT !.kind = "edit", !.item = clip_list[r]]
    /\ UNCHANGED <<hist, clip_list, item, track, music_tracks, is_processing,
                   thread_active, processing_thread, preview_all_cache,
                   has_pending_music_changes, preview_file, progress_dialog,
                   preview_all_btn, gui_wait, thr, mq, disk, pf>>

\* a faulty variant of ClampStart that stores the slider value as it is; C32
\* tells it from the code
ClampStart_unchecked(it, v) == v

\* the start time update_start_time stores for the slider value v
ClampStart(it, v) ==
    IF v >= EndOrDuration(it) THEN EndOrDuration(it) - TrimStep ELSE v

\* the end time update_end_time stores for the slider value v
ClampEnd(it, v) ==
    IF v <= it.start_time THEN it.start_time + TrimStep ELSE v

\* what is left alone by the handlers of the dialogs that write the item
DialogFrame ==
    UNCHANGED <<clip_list, track, music_tracks, is_processing, thread_active,
                processing_thread, preview_all_cache, has_pending_music_changes,
                preview_file, progress_dialog, preview_all_btn, gui_wait, thr,
                mq, disk, pf>>

\* EditDialog.update_start_time (the Trim tab exists for videos only)
update_start_time(v) ==
    /\ dlg.kind = "edit" /\ gui_wait = 0
    /\ ~item[dlg.item].is_image
    /\ v \in 0..item[dlg.item].duration
    /\ item' = [item EXCEPT ![dlg.item].start_time = ClampStart(item[dlg.item], v)]
    /\ hist' = IF item' # item THEN Edited(hist) ELSE hist
    /\ dlg' = dlg
    /\ DialogFrame

\* EditDialog.update_end_time
update_end_time(v) ==
    /\ dlg.kind = "edit" /\ gui_wait = 0
    /\ ~item[dlg.item].is_image
    /\ v \in 0..item[dlg.item].duration
    /\ item' = [item EXCEPT ![dlg.item].end_time = ClampEnd(item[dlg.item], v)]
    /\ hist' = IF item' # item THEN Edited(hist) ELSE hist
    /\ dlg' = dlg
    /\ DialogFrame

\* EditDialog.update_duration (the Duration tab exists for images only);
\* v is the slider value in seconds
update_duration(v) ==
    /\ dlg.kind = "edit" /\ gui_wait = 0
    /\ item[dlg.item].is_image
    /\ v \in 1..30
    /\ item' = [item EXCEPT ![dlg.item].display_duration = 10 * v,
                            ![dlg.item].duration = 10 * v,
                            ![dlg.item].end_time = 10 * v]
    /\ hist' = IF item' # item THEN Edited(hist) ELSE hist
    /\ dlg' = dlg
    /\ DialogFrame

\* EditDialog.set_rotation
set_rotation(degrees) ==
    /\ dlg.kind = "edit" /\ gui_wait = 0
    /\ degrees \in {0, 90, 180, 270}
    /\ item' = [item EXCEPT ![dlg.item].manual_rotation = degrees]
    /\ hist' = IF item' # item THEN Edited(hist) ELSE hist
    /\ dlg' = dlg
    /\ DialogFrame

\* EditDialog.edit_effects up to dialog.exec_(): the EffectsDialog opens and
\* its speed slider is set to int(playback_speed * 100)
edit_effects ==
    /\ dlg.kind = "edit" /\ gui_wait = 0
    /\ dlg' = [dlg EXCEPT !.kind = "effects",
                          !.slider = SpeedStr(item[dlg.item].playback_speed)]
    /\ UNCHANGED <<item, hist>>
    /\ DialogFrame

\* the speed slider of the EffectsDialog is moved (range 25..400)
speed_slider(p) ==
    /\ dlg.kind = "effects" /\ gui_wait = 0
    /\ p \in 25..400
    /\ dlg' = [dlg EXCEPT !.slider = p]
    /\ UNCHANGED <<item, hist>>
    /\ DialogFrame

FilterNames ==
    {"grayscale", "sepia", "blur", "sharpen", "noise", "vignette", "contrast",
     "brightness"}

\* EffectsDialog.apply_filter with the filter n chosen in the combo box
apply_filter(n) ==
    /\ dlg.kind = "effects" /\ gui_wait = 0
    /\ n \in FilterNames
    /\ Len(item[dlg.item].effects) < MaxEffects
    /\ item' = [item EXCEPT ![dlg.item].effects = Append(@, FilterEffect(n)),
                            ![dlg.item].has_pending_changes = TRUE]
    /\ hist' = Edited(hist)
    /\ dlg' = dlg
    /\ DialogFrame

\* the index of the first effect that is the filter n, 0 if there is none
FirstFilter(effects, n) ==
    IF \E k \in 1..Len(effects) : effects[k] = FilterEffect(n)
    THEN CHOOSE k \in 1..Len(effects) :
            /\ effects[k] = FilterEffect(n)
            /\ \A m \in 1..(k - 1) : effects[m] # FilterEffect(n)
    ELSE 0

\* EffectsDialog.remove_filter with the row of the filter n selected
remove_filter(n) ==
    /\ dlg.kind = "effects" /\ gui_wait = 0
    /\ FirstFilter(item[dlg.item].effects, n) # 0
    /\ item' = [item EXCEPT
                  ![dlg.item].effects = RemoveAt(@, FirstFilter(@, n)),
                  ![dlg.item].has_pending_changes = TRUE]
    /\ hist' = Edited(hist)
    /\ dlg' = dlg
    /\ DialogFrame

\* EffectsDialog.accept: the item afterwards
effects_accept(it, slider) ==
    LET it1 == IF slider # it.playback_speed
               THEN [it EXCEPT !.playback_speed = slider,
                               !.has_pending_changes = TRUE]
               ELSE it
    IN IF it1.has_pending_changes THEN invalidate_preview(it1) ELSE it1

\* EffectsDialog.accept (OK) and the return to the EditDialog
EffectsAccept ==
    /\ dlg.kind = "effects" /\ gui_wait = 0
    /\ item' = [item EXCEPT ![dlg.item] = effects_accept(@, dlg.slider)]
    /\ disk' = IF effects_accept(item[dlg.item], dlg.slider).has_pending_changes
               THEN invalidate_preview_disk(disk, item[dlg.item]) ELSE disk
    /\ hist' = IF dlg.slider # item[dlg.item].playback_speed
               THEN Edited(hist) ELSE hist
    /\ dlg' = [dlg EXCEPT !.kind = "edit", !.slider = 0]
    /\ UNCHANGED <<clip_list, track, music_tracks, is_processing, thread_active,
                   processing_thread, preview_all_cache,
                   has_pending_music_changes, preview_file, progress_dialog,
                   preview_all_btn, gui_wait, thr, mq, pf>>

\* EffectsDialog.reject (Cancel) and the return to the EditDialog
EffectsReject ==
    /\ dlg.kind = "effects" /\ gui_wait = 0
    /\ dlg' = [dlg EXCEPT !.kind = "edit", !.slider = 0]
    /\ UNCHANGED <<item, hist>>
    /\ DialogFrame

\* EditDialog OK: edit_selected after dialog.exec_() returned true
EditAccept ==
    /\ dlg.kind = "edit" /\ gui_wait = 0
    /\ item' = [item EXCEPT ![dlg.item] = invalidate_preview(@)]
    /\ disk' = invalidate_preview_disk(disk, item[dlg.item])
    /\ preview_all_cache' = [preview_all_cache EXCEPT !.signature = NoSig]
    /\ hist' = hist
    /\ dlg' = NoDialog
    /\ UNCHANGED <<clip_list, track, music_tracks, is_processing, thread_active,
                   processing_thread, has_pending_music_changes, preview_file,
                   progress_dialog, preview_all_btn, gui_wait, thr, mq, pf>>

\* EditDialog Cancel: edit_selected after dialog.exec_() returned false
EditReject ==
    /\ dlg.kind = "edit" /\ gui_wait = 0
    /\ dlg' = NoDialog
    /\ hist' = hist
    /\ UNCHANGED item
    /\ DialogFrame

\* ------------------------------------------------------ MusicEditorDialog

\* history: the list of tracks and the fields of the tracks when the
\* MusicEditorDialog was opened, while it is open
NoOpened == [tracks |-> <<>>, track |-> <<>>]

\* MusicTrack.__init__ on a file chosen in the file dialog (volume in percent)
NewMusicTrack == [file_ok |-> TRUE, volume |-> 70]

MusicFrame ==
    UNCHANGED <<clip_list, item, music_tracks, is_processing, thread_active,
                processing_thread, preview_all_cache, has_pending_music_changes,
                preview_file, progress_dialog, preview_all_btn, gui_wait, thr,
                mq, disk, pf>>

\* add_music up to dialog.exec_(): the MusicEditorDialog opens on a copy of
\* the list of tracks (the track objects are shared)
add_music ==
    /\ MainWindow
    /\ dlg' = [NoDialog EXCEPT !.kind = "music", !.tracks = music_tracks]
    /\ hist' = [hist EXCEPT !.opened = [tracks |-> music_tracks, track |-> track]]
    /\ track' = track
    /\ MusicFrame

\* MusicEditorDialog.update_track(row, "volume", value)
update_track(row, value) ==
    /\ dlg.kind = "music" /\ gui_wait = 0
    /\ row \in 1..Len(dlg.tracks)
    /\ track' = [track EXCEPT ![dlg.tracks[row]].volume = value]
    /\ dlg' = [dlg EXCEPT !.changes_made = TRUE]
    /\ hist' = IF track' # track THEN Edited(hist) ELSE hist
    /\ MusicFrame

\* MusicEditorDialog.add_track with a file chosen
add_track ==
    /\ dlg.kind = "music" /\ gui_wait = 0
    /\ Len(track) < MaxTracks
    /\ track' = Append(track, NewMusicTrack)
    /\ dlg' = [dlg EXCEPT !.tracks = Append(@, Len(track) + 1),
                          !.changes_made = TRUE]
    /\ hist' = [hist EXCEPT !.edits = IF @ < MaxEdits THEN @ + 1 ELSE @]
    /\ MusicFrame

\* MusicEditorDialog.delete_track(row)
delete_track(row) ==
    /\ dlg.kind = "music" /\ gui_wait = 0
    /\ row \in 1..Len(dlg.tracks)
    /\ dlg' = [dlg EXCEPT !.tracks = RemoveAt(@, row), !.changes_made = TRUE]
    /\ hist' = [hist EXCEPT !.edits = IF @ < MaxEdits THEN @ + 1 ELSE @]
    /\ track' = track
    /\ MusicFrame

\* the tracks_changed test of add_music: the new list is compared with a
\* copy of the old list that holds the same track objects
tracks_changed(old, new) ==
    \/ Len(old) # Len(new)
    \/ \E k \in 1..Len(new) : k <= Len(old) /\ new[k] # old[k]

\* MusicEditorDialog.accept and add_music after dialog.exec_() returned true
MusicAccept ==
    /\ dlg.kind = "music" /\ gui_wait = 0
    /\ music_tracks' = dlg.tracks
    /\ IF tracks_changed(music_tracks, dlg.tracks)
       THEN /\ preview_all_cache' = EmptyCache
            /\ has_pending_music_changes' = TRUE
       ELSE UNCHANGED <<preview_all_cache, has_pending_music_changes>>
    /\ hist' = [(IF dlg.tracks # music_tracks THEN Dirty(hist) ELSE hist)
                EXCEPT !.opened = NoOpened, !.discarded = FALSE]
    /\ dlg' = NoDialog
    /\ UNCHANGED <<clip_list, item, track, is_processing, thread_active,
                   processing_thread, preview_file, progress_dialog,
                   preview_all_btn, gui_wait, thr, mq, disk, pf>>

\* MusicEditorDialog.reject: the answer of the question box is wrapped in a
\* tuple, the comparison with QMessageBox.Yes is false and the dialog stays
\* open once changes were made, whether the answer is Yes or No
MusicReject ==
    /\ dlg.kind = "music" /\ gui_wait = 0
    /\ IF dlg.changes_made
       THEN /\ dlg' = dlg
            /\ \E yes \in BOOLEAN :
                  hist' = [hist EXCEPT !.discarded = @ \/ yes]
       ELSE /\ dlg' = NoDialog
            /\ hist' = [hist EXCEPT !.opened = NoOpened]
    /\ track' = track
    /\ MusicFrame

\* ------------------------------------------------------------- task runner

\* the cache test of preview_selected_item in the GUI thread
preview_item_cached(d, it) ==
    /\ ~it.has_pending_changes
    /\ it.preview_status = "ready"
    /\ it.preview_file # NoFile
    /\ Exists(d, it.preview_file)

\* the cache test of preview_all
preview_all_cached(d, cache, need_new_preview) ==
    /\ ~need_new_preview
    /\ cache.path # NoFile
    /\ Exists(d, cache.path)

\* a job can still be created within the bound of the run
CanStart == NextJob \in DOMAIN thr

\* the submission common to the three job buttons: the flags, the progress
\* dialog, the new ProcessingThread wired to the editor and started
StartThread(task, items, tracks) ==
    /\ is_processing' = TRUE
    /\ thread_active' = TRUE
    /\ progress_dialog' = TRUE
    /\ processing_thread' = NextJob
    /\ thr' = [thr EXCEPT ![NextJob] = NewThread(task, items, tracks)]

\* preview_selected_item with the item of row r selected
preview_selected_item(r) ==
    /\ MainWindow
    /\ r \in Rows
    /\ LET id == clip_list[r]
       IN IF is_processing
          THEN /\ hist' = hist
               /\ UNCHANGED <<item, is_processing, thread_active, progress_dialog,
                              processing_thread, thr, preview_file>>
          ELSE IF preview_item_cached(disk, item[id])
          THEN /\ preview_file' = item[id].preview_file
               /\ hist' = hist
               /\ UNCHANGED <<item, is_processing, thread_active, progress_dialog,
                              processing_thread, thr>>
          ELSE /\ CanStart
               /\ item' = [item EXCEPT ![id].preview_status = "generating"]
               /\ StartThread("preview_item", <<id>>, <<>>)
               /\ hist' = hist
               /\ UNCHANGED preview_file
    /\ UNCHANGED <<clip_list, track, music_tracks, preview_all_cache,
                   has_pending_music_changes, preview_all_btn, dlg, gui_wait,
                   mq, disk, pf>>

\* preview_all, the slot of the Preview All button while it is not switched
\* to cancel
preview_all ==
    /\ MainWindow
    /\ preview_all_btn = "preview_all"
    /\ IF clip_list = <<>>
       THEN /\ hist' = Request(hist, "empty")
            /\ UNCHANGED <<is_processing, thread_active, progress_dialog,
                           processing_thread, thr, preview_file, preview_all_btn>>
       ELSE IF is_processing
       THEN /\ hist' = Request(hist, "busy")
            /\ UNCHANGED <<is_processing, thread_active, progress_dialog,
                           processing_thread, thr, preview_file, preview_all_btn>>
       ELSE IF preview_all_cached(disk, preview_all_cache,
                   check_pending_changes(clip_list, item, has_pending_music_changes))
       THEN /\ preview_file' = preview_all_cache.path
            /\ hist' = Request(hist, "cached")
            /\ UNCHANGED <<is_processing, thread_active, progress_dialog,
                           processing_thread, thr, preview_all_btn>>
       ELSE /\ CanStart
            /\ preview_all_btn' = "cancel_processing"
            /\ StartThread("preview_all", clip_list, music_tracks)
            /\ hist' = [Request(hist, "started") EXCEPT
                           !.clean_job = NextJob]
            /\ UNCHANGED preview_file
    /\ UNCHANGED <<clip_list, item, track, music_tracks, preview_all_cache,
                   has_pending_music_changes, dlg, gui_wait, mq, disk, pf>>

\* export; chosen tells whether the save dialog returned a path
export(chosen) ==
    /\ MainWindow
    /\ IF clip_list = <<>>
       THEN /\ hist' = hist
            /\ UNCHANGED <<is_processing, thread_active, progress_dialog,
                           processing_thread, thr>>
       ELSE IF is_processing
       THEN /\ hist' = hist
            /\ UNCHANGED <<is_processing, thread_active, progress_dialog,
                           processing_thread, thr>>
       ELSE IF ~chosen
       THEN /\ hist' = hist
            /\ UNCHANGED <<is_processing, thread_active, progress_dialog,
                           processing_thread, thr>>
       ELSE /\ CanStart
            /\ StartThread("export", clip_list, music_tracks)
            /\ hist' = hist
    /\ UNCHANGED <<clip_list, item, track, music_tracks, preview_all_cache,
                   has_pending_music_changes, preview_file, preview_all_btn,
                   dlg, gui_wait, mq, disk, pf>>

\* the end of cancel_processing: the flags, the progress dialog, the buttons
cancel_cleanup ==
    /\ is_processing' = FALSE
    /\ thread_active' = FALSE
    /\ progress_dialog' = FALSE
    /\ preview_all_btn' = "preview_all"

\* cancel_processing: from the Cancel button of the progress dialog or from
\* the Preview All button while it is switched to cancel.  With a running
\* thread it calls abort() and blocks in wait()
cancel_processing ==
    /\ gui_wait = 0
    /\ dlg.kind # "closed"
    /\ progress_dialog \/ (preview_all_btn = "cancel_processing" /\ dlg.kind = "none")
    /\ IF /\ thread_active
          /\ processing_thread # 0
          /\ thr[processing_thread].state = "running"
       THEN /\ thr' = [thr EXCEPT ![processing_thread].abort = TRUE]
            /\ gui_wait' = processing_thread
            /\ UNCHANGED <<is_processing, thread_active, progress_dialog,
                           preview_all_btn>>
       ELSE /\ cancel_cleanup
            /\ UNCHANGED <<thr, gui_wait>>
    /\ UNCHANGED <<clip_list, item, track, music_tracks, processing_thread,
                   preview_all_cache, has_pending_music_changes, preview_file,
                   dlg, mq, disk, hist, pf>>

\* cancel_processing after wait() returned: the thread has ended
CancelReturn ==
    /\ gui_wait # 0
    /\ dlg.kind # "closing"
    /\ thr[gui_wait].state = "finished"
    /\ cancel_cleanup
    /\ gui_wait' = 0
    /\ UNCHANGED <<clip_list, item, track, music_tracks, processing_thread,
                   preview_all_cache, has_pending_music_changes, preview_file,
                   dlg, thr, mq, disk, hist, pf>>

\* clean_directory on PREVIEW_DIR and TEMP_DIR: every file and directory in
\* them is deleted
cleanup_temp_dirs(d) == {e \in d : e[1].dir \notin {"PREVIEW_DIR", "TEMP_DIR"}}

\* the main window while closeEvent is blocked in wait(), and once it is closed
ClosingWindow == [NoDialog EXCEPT !.kind = "closing"]
ClosedWindow == [NoDialog EXCEPT !.kind = "closed"]

\* closeEvent: with a running thread (as the editor's flags tell it) it calls
\* abort() and blocks in wait(); otherwise it clears the scratch directories
\* at once and accepts the event
closeEvent ==
    /\ MainWindow
    /\ IF /\ thread_active
          /\ processing_thread # 0
          /\ thr[processing_thread].state = "running"
       THEN /\ thr' = [thr EXCEPT ![processing_thread].abort = TRUE]
            /\ gui_wait' = processing_thread
            /\ dlg' = ClosingWindow
            /\ UNCHANGED disk
       ELSE /\ disk' = cleanup_temp_dirs(disk)
            /\ dlg' = ClosedWindow
            /\ UNCHANGED <<thr, gui_wait>>
    /\ UNCHANGED <<clip_list, item, track, music_tracks, is_processing,
                   thread_active, processing_thread, preview_all_cache,
                   has_pending_music_changes, preview_file, progress_dialog,
                   preview_all_btn, mq, hist, pf>>

\* closeEvent after wait() returned: the scratch directories are cleared and
\* the event is accepted
CloseReturn ==
    /\ dlg.kind = "closing"
    /\ gui_wait # 0
    /\ thr[gui_wait].state = "finished"
    /\ disk' = cleanup_temp_dirs(disk)
    /\ dlg' = ClosedWindow
    /\ gui_wait' = 0
    /\ UNCHANGED <<clip_list, item, track, music_tracks, is_processing,
                   thread_active, processing_thread, preview_all_cache,
                   has_pending_music_changes, preview_file, progress_dialog,
                   preview_all_btn, thr, mq, hist, pf>>

\* a faulty variant that stores the combined file of a Preview All job in the
\* entry and never looks at the entry's signature again; C8 tells it from
\* the code
processing_finished_stored(cache, task, r) ==
    IF task = "preview_all" /\ r.tag = "tuple"
    THEN [cache EXCEPT !.path = r.file, !.total_duration = r.dur]
    ELSE cache

\* what processing_finished does to preview_all_cache: nothing, the entry is
\* never written when a job ends
processing_finished_cache(cache, task, r) == cache

\* the status processing_finished shows for the result r of a job: canceled,
\* failed (with the warning box), or "<Task> completed"
status_label(task, r) ==
    IF r = Aborted THEN "Operation canceled"
    ELSE IF StartsWithError(r) THEN "Operation failed"
    ELSE "completed"

\* processing_finished(task, result), the slot of the finished signal
processing_finished(j, task, r) ==
    /\ is_processing' = FALSE
    /\ thread_active' = FALSE
    /\ progress_dialog' = FALSE
    /\ preview_all_btn' = IF task = "preview_all" THEN "preview_all"
                          ELSE preview_all_btn
    /\ preview_all_cache' = processing_finished_cache(preview_all_cache, task, r)
    /\ IF status_label(task, r) = "completed" /\ task = "preview_all"
          /\ r.tag = "tuple"
       THEN /\ preview_file' = r.file
            /\ hist' = [hist EXCEPT !.delivered[j] = @ + 1,
                                    !.agg = IF hist.clean_job = j THEN r.file
                                            ELSE NoFile,
                                    !.had_agg = TRUE]
       ELSE /\ preview_file' = preview_file
            /\ hist' = [hist EXCEPT !.delivered[j] = @ + 1]

\* processing_error(task, error_msg), the slot of the error signal
processing_error(j, task) ==
    /\ is_processing' = FALSE
    /\ thread_active' = FALSE
    /\ progress_dialog' = FALSE
    /\ hist' = [hist EXCEPT !.delivered[j] = @ + 1, !.errors[j] = @ + 1]
    /\ UNCHANGED <<preview_all_btn, preview_all_cache, preview_file>>

\* the GUI thread's event loop delivers the oldest queued signal to its slot
Deliver ==
    /\ gui_wait = 0
    /\ dlg.kind # "closed"
    /\ mq # <<>>
    /\ mq' = Tail(mq)
    /\ IF Head(mq).sig = "finished"
       THEN processing_finished(Head(mq).job, Head(mq).task, Head(mq).result)
       ELSE processing_error(Head(mq).job, Head(mq).task)
    /\ UNCHANGED <<clip_list, item, track, music_tracks, processing_thread,
                   has_pending_music_changes, dlg, gui_wait, thr, disk, pf>>

\* ---------------------------------------------------------- specifications

NoRequest == [kind |-> "none", fresh |-> FALSE, had |-> FALSE]

NoMade == [file |-> NoFile, fields |-> <<>>]

\* history of the last import: whether the probe of its file succeeded and
\* how many files its "Import Errors" box listed (0: no box was shown)
NoImport == [probe_ok |-> TRUE, failed_files |-> 0]

HistInit ==
    [emitted |-> [j \in JobIds |-> 0], delivered |-> [j \in JobIds |-> 0],
     errors |-> [j \in JobIds |-> 0], enc |-> [j \in JobIds |-> 0],
     ticked |-> [j \in JobIds |-> FALSE],
     cp_spawns |-> [i \in ItemIds |-> 0], spawned |-> [i \in ItemIds |-> <<>>],
     made |-> [i \in ItemIds |-> NoMade], respawn |-> FALSE,
     agg |-> NoFile, had_agg |-> FALSE, clean_job |-> 0, req |-> NoRequest,
     edits |-> 0, progress |-> [j \in JobIds |-> <<>>], imported |-> NoImport,
     used_rc |-> {}, opened |-> NoOpened, discarded |-> FALSE]

NoPure == [a |-> <<>>, b |-> <<>>, out |-> <<>>]

\* VideoCompilationEditor.__init__: the fields of the editor
EditorInit ==
    /\ is_processing = FALSE
    /\ thread_active = FALSE
    /\ processing_thread = 0
    /\ preview_all_cache = EmptyCache
    /\ has_pending_music_changes = FALSE
    /\ preview_file = NoFile
    /\ progress_dialog = FALSE
    /\ preview_all_btn = "preview_all"
    /\ dlg = NoDialog
    /\ gui_wait = 0
    /\ mq = <<>>

\* the editor after construction: no media, no music, the scratch
\* directories emptied by cleanup_temp_dirs
Init ==
    /\ EditorInit
    /\ clip_list = <<>>
    /\ item = <<>>
    /\ track = <<>>
    /\ music_tracks = <<>>
    /\ thr = [j \in 1..SessionJobs |-> NoThread]
    /\ disk = {}
    /\ hist = HistInit
    /\ pf = NoPure

\* one step of the ProcessingThread of job j: the poll loops see an event of
\* E (X for the loops of export_video), a subprocess leaves an output of O;
\* the event "raise", an exception of Popen or of the loop, is followed in the
\* transcode of an item and in the music steps, the event "fail", the end of
\* the subprocess with a nonzero return code, in the transcode of an item; the
\* status lines of the encoder of create_preview carry a time of T
Worker(j, E, X, O, T) ==
    \/ CPBegin(j)
    \/ \E out \in O, t \in T : CPLine(j, out, t)
    \/ \E rc \in {0, 1}, out \in O : CPExit(j, rc, out)
    \/ PATop(j)
    \/ \E ev \in E, out \in O : PAItem(j, ev, out)
    \/ PAAfterLoop(j)
    \/ \E ev \in E \ {"fail"}, out \in O : PA1Mix(j, ev, out)
    \/ \E ev \in E \ {"fail"}, out \in O : PA1Add(j, ev, out)
    \/ \E ev \in E \ {"raise", "fail"}, out \in O : PAConcat(j, ev, out)
    \/ \E ev \in E \ {"fail"}, out \in O : PAMix(j, ev, out)
    \/ \E ev \in E \ {"fail"}, out \in O : PAAdd(j, ev, out)
    \/ EXTop(j)
    \/ \E ev \in X, out \in O : EXItem(j, ev, out)
    \/ EXAfterLoop(j)
    \/ \E ev \in X \ {"raise", "fail"}, out \in O : EXConcat(j, ev, out)
    \/ \E ev \in X \ {"fail"}, out \in O : EXMusic(j, ev, out)
    \/ \E ev \in X \ {"raise", "fail"}, out \in O : EXReenc(j, ev, out)

\* the task runner: the three job buttons, cancel and the delivery of the
\* queued signals
Runner ==
    \/ \E r \in Rows : preview_selected_item(r)
    \/ preview_all
    \/ \E chosen \in BOOLEAN : export(chosen)
    \/ cancel_processing
    \/ CancelReturn
    \/ Deliver

\* outputs of a subprocess in the runs of the whole editor: none, or a file
\* that passes the size check
RunOuts == {0, Big}

\* ---- the task runner on a project that is not edited

\* a project the editor can hold: one video imported, no music; up to
\* MaxJobs jobs are submitted
RunInit ==
    /\ EditorInit
    /\ clip_list = <<1>>
    /\ item = <<NewVideoClip>>
    /\ track = <<>>
    /\ music_tracks = <<>>
    /\ thr = [j \in JobIds |-> NoThread]
    /\ disk = {}
    /\ hist = HistInit
    /\ pf = NoPure

RunNext ==
    \/ Runner
    \/ \E j \in DOMAIN thr : Worker(j, ExportEvents, ExportEvents, RunOuts, {NoTime})

SpecRun == RunInit /\ [][RunNext]_vars

\* ---- one job in detail

\* an item that was previewed before: its artifact of the given size is
\* attached
Previewed(id, it, pending) ==
    [it EXCEPT !.preview_file = get_preview_filename(id, it),
               !.preview_status = "ready", !.has_pending_changes = pending]

\* the projects of the one-job runs: a video and an image, edited since they
\* were added or not, none to MaxTracks music tracks whose files may have
\* gone since they were added
PipeProjects ==
    [clips : {<<1>>, <<1, 2>>},
     music : {<<>>, <<1>>, <<1, 2>>},
     ok : [TrackIds -> BOOLEAN],
     task : {"preview_item", "preview_all", "export"},
     cached : {0, SanitySize, Big},
     pending : BOOLEAN]

\* the editor right after a job button started the job: preview_selected_item
\* on the first item (whose earlier artifact, if any, is pending a change),
\* preview_all or export on the whole list
PipeInit ==
    \E p \in PipeProjects :
        /\ p.task # "preview_item" => p.cached = 0
        /\ p.task = "preview_item" => p.clips = <<1>> /\ p.music = <<>> /\ ~p.pending
        /\ p.music = <<>> => p.ok = [t \in TrackIds |-> TRUE]
        /\ clip_list = p.clips
        /\ item = <<IF p.cached = 0
                    THEN [NewVideoClip EXCEPT !.preview_status =
                             IF p.task = "preview_item" THEN "generating" ELSE "none",
                                              !.has_pending_changes = p.pending]
                    ELSE [Previewed(1, NewVideoClip, TRUE) EXCEPT
                             !.preview_status = "generating"],
                    [NewImageItem EXCEPT !.has_pending_changes = p.pending]>>
        /\ track = [t \in TrackIds |-> [NewMusicTrack EXCEPT !.file_ok = p.ok[t]]]
        /\ music_tracks = p.music
        /\ is_processing = TRUE
        /\ thread_active = TRUE
        /\ processing_thread = 1
        /\ preview_all_cache = EmptyCache
        /\ has_pending_music_changes = (p.music # <<>>)
        /\ preview_file = NoFile
        /\ progress_dialog = TRUE
        /\ preview_all_btn = IF p.task = "preview_all" THEN "cancel_processing"
                             ELSE "preview_all"
        /\ dlg = NoDialog
        /\ gui_wait = 0
        /\ thr = [j \in {1} |->
                    NewThread(p.task, IF p.task = "preview_item" THEN <<1>> ELSE p.clips,
                              IF p.task = "preview_item" THEN <<>> ELSE p.music)]
        /\ mq = <<>>
        /\ disk = IF p.cached = 0 THEN {}
                  ELSE {<<get_preview_filename(1, NewVideoClip), p.cached>>}
        /\ hist = HistInit
        /\ pf = NoPure

\* the times of the status lines of an encoder: none, half of the probed
\* duration, all of it
LineTimes == {NoTime, ProbedDuration \div 2, ProbedDuration}

\* the steps of the worker in which a subprocess ends or a time limit passes
WorkerProgress(j) == Worker(j, {"timeout", "exit"}, {"exit"}, Outs, LineTimes)

PipeNext ==
    \/ cancel_processing
    \/ CancelReturn
    \/ Deliver
    \/ \E j \in DOMAIN thr : Reap(j)
    \/ \E j \in DOMAIN thr :
          Worker(j, PollEvents \cup {"raise", "fail"},
                 ExportEvents \cup {"raise", "fail"}, Outs, LineTimes)

SpecPipe == PipeInit /\ [][PipeNext]_vars

\* the same runs under the scheduling the program relies on: every
\* subprocess ends or is stopped by its time limit, the worker thread runs,
\* the GUI thread's event loop runs and wait() returns once the thread ended
SpecPipeLive ==
    /\ PipeInit /\ [][PipeNext]_vars
    /\ WF_vars(WorkerProgress(1))
    /\ WF_vars(CancelReturn)
    /\ WF_vars(Deliver)

\* ------------------------------------------------------------- properties

\* a result a worker function may hand to run(): an artifact path (with the
\* total duration for preview_all), "Aborted", or a failure message
ResultOk(task, r) ==
    \/ r = Aborted
    \/ r.tag = "msg" /\ r.text \in ErrorPrefixed \cup OtherFailures
    \/ task = "preview_all" /\ r.tag = "tuple" /\ r.file # NoFile
    \/ task # "preview_all" /\ r.tag = "path" /\ r.file # NoFile

\* the signals of job j that wait in the GUI thread's queue
Queued(j) == {k \in 1..Len(mq) : mq[k].job = j}

C2_ExactlyOneSignal ==
    \A j \in DOMAIN thr :
        /\ thr[j].state = "finished" => hist.emitted[j] = 1
        /\ thr[j].state # "finished" => hist.emitted[j] = 0
        /\ hist.delivered[j] + Cardinality(Queued(j)) = hist.emitted[j]
        /\ hist.errors[j] = 0
        /\ \A k \in Queued(j) : mq[k].sig = "finished" /\ mq[k].result = thr[j].result
        /\ thr[j].state = "finished" => ResultOk(thr[j].task, thr[j].result)

C3_CancelAborts ==
    \A j \in DOMAIN thr :
        thr[j].state = "finished" /\ hist.ticked[j] => thr[j].result = Aborted

\* a file of the scratch area that job j created
JobScratch(f, j) ==
    \/ f.dir = "TEMP_DIR" /\ f.a = j
    \/ f.dir = "PREVIEW_DIR" /\ f = thr[j].name

\* C4: after "Aborted" no file the job created remains in the scratch area
C4_AbortLeavesNoScratch ==
    \A j \in DOMAIN thr :
        thr[j].state = "finished" /\ thr[j].result = Aborted
            => ~\E e \in disk : JobScratch(e[1], j)

\* C1: at most one job is in flight: a submission made while a worker is
\* running is turned away and starts no second worker, whatever the order of
\* submissions, cancel_processing and the delivery of the signals of earlier
\* jobs
C1_OneJobInFlight == Cardinality(Running) <= 1

\* ---- the edit dialogs on previewed items

\* values the handlers of the dialogs are called with in the runs of the
\* edit dialogs
EditTimes == {0, 10, ProbedDuration}
EditSeconds == {1, 3, 30}
EditRotations == {0, 90, 180, 270}
EditSpeeds == {25, 29, 100, 400}
EditFilters == {"grayscale", "sepia"}

\* a project whose item, a video or an image, was previewed: its artifact is
\* attached and on disk, no change is pending
EditInit ==
    /\ EditorInit
    /\ clip_list = <<1>>
    /\ item \in {<<Previewed(1, NewVideoClip, FALSE)>>,
                 <<Previewed(1, NewImageItem, FALSE)>>}
    /\ track = <<>>
    /\ music_tracks = <<>>
    /\ thr = [j \in {1} |-> NoThread]
    /\ disk = {<<item[1].preview_file, Big>>}
    /\ hist = [HistInit EXCEPT !.made[1] = [file |-> item[1].preview_file,
                                            fields |-> RenderFields(item[1])]]
    /\ pf = NoPure

EditNext ==
    \/ \E r \in Rows : edit_selected(r)
    \/ \E v \in EditTimes : update_start_time(v)
    \/ \E v \in EditTimes : update_end_time(v)
    \/ \E v \in EditSeconds : update_duration(v)
    \/ \E d \in EditRotations : set_rotation(d)
    \/ edit_effects
    \/ \E p \in EditSpeeds : speed_slider(p)
    \/ \E n \in EditFilters : apply_filter(n)
    \/ \E n \in EditFilters : remove_filter(n)
    \/ EffectsAccept
    \/ EffectsReject
    \/ EditAccept
    \/ EditReject

SpecEdit == EditInit /\ [][EditNext]_vars

\* C6: every operation that changes a rendering field of an item (trim start
\* or end, image duration, manual rotation, a filter added or removed, the
\* speed) sets the pending flag and invalidates the preview artifact (file
\* deleted, path cleared, status reset): once the edit dialog has closed, an
\* item whose rendering fields differ from those its artifact was encoded
\* with is pending, has no artifact attached, has status "none", and no
\* preview file of it is on disk
C6_EditInvalidates ==
    \A id \in 1..Len(item) :
        (/\ dlg.kind = "none"
         /\ hist.made[id].file # NoFile
         /\ RenderFields(item[id]) # hist.made[id].fields)
        => /\ item[id].has_pending_changes
           /\ item[id].preview_file = NoFile
           /\ item[id].preview_status = "none"
           /\ ~\E e \in disk : e[1].kind = "preview" /\ e[1].a = id

\* ---- the preview signature as a function

\* the fields of an item the signature is said to follow
SignatureFields(it) ==
    <<it.start_time, it.end_time, it.manual_rotation, it.playback_speed,
      it.effects>>

SigVideos ==
    {[NewVideoClip EXCEPT !.start_time = s, !.end_time = e,
                          !.manual_rotation = r, !.playback_speed = p,
                          !.effects = fx] :
        s \in {0, 10}, e \in {20, ProbedDuration}, r \in {0, 90},
        p \in {28, 29, 100},
        fx \in {<<>>, <<FilterEffect("grayscale")>>, <<FilterEffect("sepia")>>}}

SigImages ==
    {[NewImageItem EXCEPT !.display_duration = d, !.duration = d, !.end_time = d,
                          !.manual_rotation = r, !.playback_speed = p,
                          !.effects = fx] :
        d \in {30, DefaultImageDuration}, r \in {0, 90}, p \in {100, 200},
        fx \in {<<>>, <<FilterEffect("grayscale")>>, <<FilterEffect("sepia")>>}}

\* two states of the same item: both videos or both images
SigInit ==
    /\ EditorInit
    /\ clip_list = <<>>
    /\ item = <<>>
    /\ track = <<>>
    /\ music_tracks = <<>>
    /\ thr = [j \in {1} |-> NoThread]
    /\ disk = {}
    /\ hist = HistInit
    /\ \E a, b \in SigVideos \cup SigImages :
          /\ a.is_image = b.is_image
          /\ pf = [a |-> a, b |-> b, out |-> <<>>]

\* get_preview_filename is called on the item in both states
ComputeSignature ==
    /\ pf.out = <<>>
    /\ pf' = [pf EXCEPT !.out = <<get_preview_filename(1, pf.a),
                                  get_preview_filename(1, pf.b)>>]
    /\ UNCHANGED <<clip_list, item, track, music_tracks, is_processing,
                   thread_active, processing_thread, preview_all_cache,
                   has_pending_music_changes, preview_file, progress_dialog,
                   preview_all_btn, dlg, gui_wait, thr, mq, disk, hist>>

SigNext == ComputeSignature

SpecSig == SigInit /\ [][SigNext]_vars

\* C7: the signature (get_preview_filename) changes exactly when one of
\* start, end, rotation, speed or the effects changes, which filter an effect
\* names and the speed of an image item included
C7_SignatureFollowsFields ==
    pf.out # <<>> =>
        ((pf.out[1] # pf.out[2]) <=> (SignatureFields(pf.a) # SignatureFields(pf.b)))

\* ---- the whole editor

\* the values the handlers of the dialogs are called with in the runs of the
\* whole editor
SpecTimes == {10}
SpecSeconds == {3}
SpecRotations == {90}
SpecSpeeds == {50}
SpecFilters == {"grayscale"}
SpecVolumes == {50}

\* the operations on the clip list
ListOps ==
    \/ \E ok \in BOOLEAN : add_videos(ok)
    \/ \E ok \in BOOLEAN : add_images(ok)
    \/ \E r \in Rows : delete_selected(r)
    \/ \E p \in Orders(clip_list) : randomize_order(p)
    \/ \E p \in Orders(clip_list) : on_items_reordered(p)

\* the dialogs are opened, left and closed
DialogOps ==
    \/ \E r \in Rows : edit_selected(r)
    \/ edit_effects
    \/ EffectsAccept
    \/ EffectsReject
    \/ EditAccept
    \/ EditReject
    \/ add_music
    \/ MusicAccept
    \/ MusicReject

\* the handlers of the EditDialog and of its EffectsDialog
EditOps ==
    \/ \E v \in SpecTimes : update_start_time(v)
    \/ \E v \in SpecTimes : update_end_time(v)
    \/ \E v \in SpecSeconds : update_duration(v)
    \/ \E d \in SpecRotations : set_rotation(d)
    \/ \E p \in SpecSpeeds : speed_slider(p)
    \/ \E n \in SpecFilters : apply_filter(n)
    \/ \E n \in SpecFilters : remove_filter(n)

\* the handlers of the MusicEditorDialog
MusicOps ==
    \/ \E row \in TrackIds, value \in SpecVolumes : update_track(row, value)
    \/ add_track
    \/ \E row \in TrackIds : delete_track(row)

\* the whole editor from its construction: up to SessionJobs jobs and
\* MaxEdits changes by dialog handlers in a run; a subprocess ends with a
\* file that passes the size check.  The properties below are checked on the
\* narrower specifications SpecRun, SpecPipe, SpecEdit, SpecSig and SpecAgg,
\* which share these actions
Next ==
    \/ ListOps
    \/ DialogOps
    \/ hist.edits < MaxEdits /\ EditOps
    \/ hist.edits < MaxEdits /\ MusicOps
    \/ Runner
    \/ \E j \in DOMAIN thr : Worker(j, {"exit"}, {"exit"}, {Big}, {NoTime})

Spec == Init /\ [][Next]_vars

\* ---- the aggregate preview after a Preview All job

\* an item as the item loop of process_all_clips leaves it after its file
\* passed the check
Rendered(it) == [it EXCEPT !.has_pending_changes = FALSE]

\* the projects of the runs on the aggregate preview
AggProjects ==
    {<<Rendered(NewVideoClip)>>, <<Rendered(NewImageItem)>>,
     <<Rendered(NewVideoClip), Rendered(NewImageItem)>>}

\* the total duration process_all_clips adds up over the items
TotalDuration(its) ==
    IF Len(its) = 1 THEN preview_duration(its[1])
    ELSE preview_duration(its[1]) + preview_duration(its[2])

\* the editor right after the worker of a Preview All job on a project
\* without music returned the combined file: the thread has ended, its
\* finished signal is queued for the GUI thread
AggInit ==
    /\ item \in AggProjects
    /\ clip_list = [k \in 1..Len(item) |-> k]
    /\ track = <<>>
    /\ music_tracks = <<>>
    /\ is_processing = TRUE
    /\ thread_active = TRUE
    /\ processing_thread = 1
    /\ preview_all_cache = EmptyCache
    /\ has_pending_music_changes = FALSE
    /\ preview_file = NoFile
    /\ progress_dialog = TRUE
    /\ preview_all_btn = "cancel_processing"
    /\ dlg = NoDialog
    /\ gui_wait = 0
    /\ LET r == TupleResult(OutputFile(1), TotalDuration(item))
       IN /\ thr = [j \in 1..SessionJobs |->
                      IF j = 1
                      THEN [NoThread EXCEPT !.state = "finished",
                                            !.task = "preview_all",
                                            !.items = clip_list, !.pc = "done",
                                            !.result = r]
                      ELSE NoThread]
          /\ mq = on_worker_finished(1, "preview_all", r)
    /\ disk = {<<OutputFile(1), Big>>}
    /\ hist = [HistInit EXCEPT !.emitted[1] = 1, !.enc[1] = Len(item),
                               !.clean_job = 1,
                               !.req = [NoRequest EXCEPT !.kind = "started"]]
    /\ pf = NoPure

\* the GUI thread after the job: the queued signal is delivered, the project
\* is edited, Preview All is clicked again; the runs end before the thread of
\* a job started by that click is scheduled
AggNext ==
    \/ ListOps
    \/ DialogOps
    \/ hist.edits < MaxEdits /\ EditOps
    \/ hist.edits < MaxEdits /\ MusicOps
    \/ preview_all
    \/ cancel_processing
    \/ Deliver

SpecAgg == AggInit /\ [][AggNext]_vars

\* C8: after any edit (an item's trim, rotation, effect or speed; an item
\* added or deleted; a music track added, removed or modified and accepted)
\* and after any reordering (drag, shuffle) the aggregate preview is
\* invalidated: once the job has changed since its aggregate preview last
\* played, the cache test of preview_all fails (the entry holds no file that
\* exists, or pending changes are reported), and a click on Preview All plays
\* the cached aggregate only when the job is unchanged
C8_AggregateInvalidated ==
    /\ (hist.had_agg /\ hist.agg = NoFile)
          => ~preview_all_cached(disk, preview_all_cache,
                 check_pending_changes(clip_list, item, has_pending_music_changes))
    /\ hist.req.kind = "cached" => hist.req.fresh

\* the aggregate preview was played, the job was changed, and the next click
\* on Preview All started a job instead of playing a cached file
C8_Witness ==
    /\ hist.req.kind = "started"
    /\ hist.req.had
    /\ ~hist.req.fresh
    /\ hist.agg = NoFile

\* ---- properties of the task runner on a project that is not edited

\* C5: previewing the same item twice with no edit in between spawns one
\* encoder in all: while the artifact of the item's last successful encode is
\* on disk with more than SanitySize bytes and the item's rendering fields are
\* those it was encoded with, the cache test of create_preview passes, and no
\* encoder is ever spawned for an item in that state
C5_SecondPreviewCached ==
    /\ ~hist.respawn
    /\ \A id \in 1..Len(item) :
          FreshArtifact(hist, disk, id) => create_preview_cached(disk, item[id])

\* an item was encoded once, and a second preview request played its
\* artifact from the cache
C5_Witness ==
    \E id \in 1..Len(item) :
        /\ hist.cp_spawns[id] = 1
        /\ FreshArtifact(hist, disk, id)
        /\ preview_file = hist.made[id].file

\* C9: a click on Preview All for a job that is unchanged since its last
\* successful aggregate preview (nothing pending, same order, the file still
\* on disk) is a cache hit: it starts no worker
C9_UnchangedIsCacheHit == hist.req.fresh => hist.req.kind # "started"

\* C10: export never short-circuits on a cache: an export job that got past
\* its item loop, or ended with anything but "Aborted", has started one
\* encoder per submitted item, and a path it returns is the chosen output path
C10_ExportRendersAll ==
    \A j \in DOMAIN thr :
        thr[j].task = "export" =>
            /\ (thr[j].state = "running"
                    /\ thr[j].pc \in {"ex_concat", "ex_music", "ex_reenc"})
                  => hist.enc[j] = Len(thr[j].items)
            /\ (thr[j].state = "finished" /\ thr[j].result # Aborted)
                  => hist.enc[j] = Len(thr[j].items)
            /\ (thr[j].state = "finished" /\ thr[j].result.tag = "path")
                  => thr[j].result.file = OutputPath

\* an export returned the output path although the preview of its item was
\* in the cache when it ran
C10_Witness ==
    \E j \in DOMAIN thr :
        /\ thr[j].task = "export"
        /\ thr[j].state = "finished"
        /\ thr[j].result = PathResult(OutputPath)
        /\ ValidFile(disk, OutputPath)
        /\ hist.enc[j] = Len(thr[j].items)
        /\ \A k \in 1..Len(thr[j].items) :
              /\ hist.made[thr[j].items[k]].file # NoFile
              /\ create_preview_cached(disk, item[thr[j].items[k]])

\* --------------------------------------------- properties of the pipelines

\* the stage of a job in which the stream-copy concat runs, and the file it
\* writes
InTier1(th) == th.state = "running" /\ th.pc \in {"pa_concat", "ex_concat"}
Tier1Output(th) == IF th.task = "export" THEN OutputPath ELSE th.outf

\* C11: in preview-all and in export, a job that leaves the stream-copy
\* concat without being cancelled and with an output that is missing or not
\* larger than the sanity size goes on to the re-encoding concat, and to
\* nothing else
C11_Tier2AfterTier1 ==
    [][\A j \in DOMAIN thr :
          (/\ InTier1(thr[j])
           /\ thr'[j].pc # thr[j].pc
           /\ thr'[j].result # Aborted
           /\ ~ValidFile(disk', Tier1Output(thr[j])))
          => thr'[j].state = "running" /\ thr'[j].pc = "ex_reenc"]_vars

\* the stage of a job in which its last concat runs: the stream-copy concat
\* of process_all_clips, the re-encode of export_video
InLastConcat(th) == th.state = "running" /\ th.pc \in {"pa_concat", "ex_reenc"}

\* C12: in preview-all and in export, a job that holds at least one valid
\* intermediate and whose last concat ends, uncancelled, without a valid
\* output returns a valid file as its artifact and not an error message
C12_Tier3Copy ==
    [][\A j \in DOMAIN thr :
          (/\ InLastConcat(thr[j])
           /\ thr[j].valid # <<>>
           /\ thr'[j].state = "finished"
           /\ thr'[j].result # Aborted
           /\ ~ValidFile(disk', Tier1Output(thr[j])))
          => /\ thr'[j].result.tag # "msg"
             /\ ValidFile(disk', thr'[j].result.file)]_vars

\* the stage of a job in which the encoder of one item runs
InItem(th) == th.state = "running" /\ th.pc \in {"pa_item", "ex_item"}

\* C13: in preview-all and in export, when the transcode of an item ends,
\* uncancelled, without a valid intermediate (encoder failure, invalid
\* output, exception), the item is skipped and the job goes on with the next
\* item
C13_FailedItemSkipped ==
    [][\A j \in DOMAIN thr :
          (/\ InItem(thr[j])
           /\ thr'[j].pc # thr[j].pc
           /\ thr'[j].result # Aborted
           /\ thr'[j].valid = thr[j].valid)
          => /\ thr'[j].state = "running"
             /\ thr'[j].pc \in {"pa_top", "ex_top"}
             /\ thr'[j].i = thr[j].i + 1]_vars

\* the item loop of a job has ended
LoopEnded(th) ==
    th.state = "running" /\ th.pc \in {"pa_top", "ex_top"} /\ th.i > Len(th.items)

\* C14: in preview-all and in export, an uncancelled job none of whose items
\* gave a valid intermediate ends at once with a result that processing_finished handles
\* as a failure, never as a completed job
C14_NoValidItemIsError ==
    [][\A j \in DOMAIN thr :
          (/\ LoopEnded(thr[j]) /\ thr[j].valid = <<>> /\ ~thr[j].abort
           /\ thr'[j].pc # thr[j].pc)
          => /\ thr'[j].state = "finished"
             /\ status_label(thr'[j].task, thr'[j].result) = "Operation failed"]_vars

\* the intermediate file a job writes for the k-th item of its list
Intermediate(j, th, k) ==
    IF th.task = "export" THEN ExportPart(j, k) ELSE TempPreview(j, k)

\* the places in the submitted list of the items whose intermediates the
\* list fs names, in the order of fs (0 for a file that is no intermediate)
Places(j, th, fs) ==
    [n \in 1..Len(fs) |->
        IF \E k \in 1..Len(th.items) : fs[n] = Intermediate(j, th, k)
        THEN CHOOSE k \in 1..Len(th.items) : fs[n] = Intermediate(j, th, k)
        ELSE 0]

\* s is strictly increasing
Increasing(s) == \A a, b \in 1..Len(s) : a < b => s[a] < s[b]

\* C15: in a preview-all or export job the items are encoded one after
\* another in submitted order, and the list of valid intermediates, from
\* which the re-encode takes its inputs, and the concat manifest name the
\* intermediates of submitted items in submitted order without repetition;
\* the manifest names exactly the items whose intermediate is valid
C15_ManifestInOrder ==
    \A j \in DOMAIN thr :
        LET th == thr[j]
        IN (th.state = "running" /\ th.task \in {"preview_all", "export"}) =>
              /\ InItem(th) => hist.enc[j] = th.i
              /\ \A n \in 1..Len(th.valid) :
                    Places(j, th, th.valid)[n] \in 1..(th.i - 1)
              /\ Increasing(Places(j, th, th.valid))
              /\ th.pc \in {"pa_concat", "ex_concat"} =>
                    /\ th.manifest = th.valid
                    /\ \A k \in 1..Len(th.items) :
                          ValidFile(disk, Intermediate(j, th, k))
                             <=> \E n \in 1..Len(th.manifest) :
                                    th.manifest[n] = Intermediate(j, th, k)

\* the stream-copy concat of a preview-all job runs on the manifest of both
\* of its items
C15_Witness ==
    \E j \in DOMAIN thr :
        /\ thr[j].state = "running" /\ thr[j].pc = "pa_concat"
        /\ thr[j].manifest = <<TempPreview(j, 1), TempPreview(j, 2)>>
        /\ ValidFile(disk, FileList(j))

\* the duration of an item as it plays in a composite: the trimmed length
\* divided by the playback speed (in percent) for a video, the display
\* duration for an image
EffectiveDuration(it) ==
    IF it.is_image THEN it.display_duration
    ELSE ((EndOrDuration(it) - it.start_time) * 100) \div it.playback_speed

RECURSIVE SumEffective(_, _)
SumEffective(its, ks) ==
    IF ks = <<>> THEN 0
    ELSE EffectiveDuration(item[its[Head(ks)]]) + SumEffective(its, Tail(ks))

\* the places in the submitted list of the items that are in the file a
\* preview-all job returns: the first valid one in the single clip fallback,
\* all valid ones otherwise
InComposite(j, th, f) ==
    IF f = FallbackFile(j) THEN SubSeq(Places(j, th, th.valid), 1, 1)
    ELSE Places(j, th, th.valid)

\* C16: the total duration a preview-all job returns with its file is the
\* sum of the effective durations of exactly the items that are in the file
C16_TotalDuration ==
    [][\A j \in DOMAIN thr :
          (/\ thr[j].state = "running" /\ thr[j].task = "preview_all"
           /\ thr'[j].state = "finished" /\ thr'[j].result.tag = "tuple")
          => thr'[j].result.dur =
                SumEffective(thr[j].items,
                             InComposite(j, thr[j], thr'[j].result.file))]_vars

\* the stages of a job in which music is mixed or added; the composite
\* without music is then on disk
InMusic(th) ==
    th.state = "running" /\ th.pc \in {"pa1_mix", "pa1_add", "pa_mix", "pa_add", "ex_music"}

\* C17: in preview-all (single clip and multi clip path) and in export, a job
\* that ends in a music step without having been cancelled ends as a
\* completed job whose result is a valid file, whatever happened to the
\* music (missing track file, failed or timed out subprocess, exception)
C17_MusicNeverFails ==
    [][\A j \in DOMAIN thr :
          (/\ InMusic(thr[j])
           /\ thr'[j].state = "finished"
           /\ thr'[j].result # Aborted)
          => /\ status_label(thr'[j].task, thr'[j].result) = "completed"
             /\ thr'[j].result.tag # "msg"
             /\ ValidFile(disk', thr'[j].result.file)]_vars

\* C18: within one job every emitted progress percentage is between 0 and
\* 100, and none is lower than the one before it unless it is the message of
\* a step to a fallback
C18_ProgressMonotone ==
    \A j \in JobIds :
        LET ps == hist.progress[j]
        IN /\ \A n \in 1..Len(ps) : ps[n].p \in 0..100
           /\ \A n \in 2..Len(ps) : ps[n].fb \/ ps[n].p >= ps[n - 1].p

\* a step of the worker of job j: the thread moves on in its worker function
\* or ends
WorkerStep(j) ==
    /\ thr[j].state = "running"
    /\ thr'[j].pc # thr[j].pc \/ thr'[j].i # thr[j].i \/ thr'[j].state # "running"

\* C19: a preview-all or export job works on what was submitted and does not
\* change the live items: no step of its worker writes a field of an item of
\* the list, and no step of the interactive side changes the items and tracks
\* the job holds
C19_JobLeavesLiveItems ==
    [][\A j \in DOMAIN thr :
          thr[j].task \in {"preview_all", "export"} =>
             /\ WorkerStep(j) => item' = item /\ track' = track
             /\ (thr[j].state = "running" /\ thr'[j].state = "running")
                   => /\ thr'[j].items = thr[j].items
                      /\ thr'[j].tracks = thr[j].tracks]_vars

\* C20: no action of the interactive side waits for the worker: the GUI
\* thread is never blocked on a thread whose worker function is still running
C20_InteractiveNeverBlocks ==
    \A j \in DOMAIN thr : gui_wait = j => thr[j].state # "running"

\* ------------------------------------------------- the editor without jobs

\* the editor from its construction with the list, the dialogs and their
\* handlers; no job is started
ListNext ==
    \/ ListOps
    \/ DialogOps
    \/ hist.edits < MaxEdits /\ EditOps
    \/ hist.edits < MaxEdits /\ MusicOps

SpecList == Init /\ [][ListNext]_vars

\* an import whose probe failed, after one whose probe had succeeded
FailedImport == hist.imported.probe_ok /\ ~hist'.imported.probe_ok

\* C21: a media file whose probe fails is rejected when it is added: the item
\* list and every item in it stay as they were and the failure is shown to
\* the user; an item is appended only by an import whose probe succeeded
C21_ProbeFailureRejected ==
    [][/\ FailedImport =>
            /\ clip_list' = clip_list
            /\ item' = item
            /\ hist'.imported.failed_files > 0
       /\ Len(item') > Len(item) => hist'.imported.probe_ok]_vars

\* a file was rejected from a list that already held an item
C21_Witness ==
    /\ ~hist.imported.probe_ok
    /\ hist.imported.failed_files = 1
    /\ Len(clip_list) = 1 /\ Len(item) = 1

\* ---- the editor until its window is closed

\* one video imported, up to two jobs, then closeEvent
CloseInit ==
    /\ EditorInit
    /\ clip_list = <<1>>
    /\ item = <<NewVideoClip>>
    /\ track = <<>>
    /\ music_tracks = <<>>
    /\ thr = [j \in 1..SessionJobs |-> NoThread]
    /\ disk = {}
    /\ hist = HistInit
    /\ pf = NoPure

CloseNext ==
    \/ Runner
    \/ closeEvent
    \/ CloseReturn
    \/ \E j \in DOMAIN thr : Worker(j, ExportEvents, ExportEvents, RunOuts, {NoTime})

SpecClose == CloseInit /\ [][CloseNext]_vars

\* a file of the scratch area is on disk
ScratchInUse == \E e \in disk : e[1].dir \in {"PREVIEW_DIR", "TEMP_DIR"}

\* C22: the scratch area is empty after the cleanup of startup and once
\* closeEvent has accepted the event, a job in flight included: nothing is
\* written into it after the window was closed
C22_ScratchEmptyAfterClose ==
    /\ dlg.kind = "closed" => ~ScratchInUse
    /\ (\A j \in DOMAIN thr : thr[j].state = "none") => ~ScratchInUse

\* C23: in every pipeline the encode of an item counts as failed when the
\* encoder ends with a nonzero return code (or leaves no file, or one of at
\* most 1000 bytes): no output of an encoder that ended with a nonzero code
\* is taken as an intermediate or as a cached artifact
C23_NonzeroExitIsFailure == 1 \notin hist.used_rc

\* ---- one job whose encoder may stop for good

\* the external encoder of job j stops: from now on no subprocess of the job
\* writes a line or exits by itself
Hang(j) ==
    /\ thr[j].state = "running"
    /\ ~thr[j].hung
    /\ thr' = [thr EXCEPT ![j].hung = TRUE]
    /\ UNCHANGED <<guiVars, item, track, mq, disk, hist, pf>>

\* a step of the worker of job j: with a stopped encoder its poll loops see
\* the subprocess running, and their time limit passing where they have one
HangWorker(j) ==
    IF thr[j].hung
    THEN Worker(j, {"tick", "timeout"}, {"tick"}, Outs, {NoTime})
    ELSE Worker(j, PollEvents, ExportEvents, Outs, {NoTime})

\* no cancel is requested
HangNext ==
    \/ Deliver
    \/ \E j \in DOMAIN thr : Hang(j)
    \/ \E j \in DOMAIN thr : HangWorker(j)

\* the worker thread and the GUI thread's event loop run
SpecHang ==
    /\ PipeInit /\ [][HangNext]_vars
    /\ WF_vars(HangWorker(1))
    /\ WF_vars(Deliver)

\* C24: every wait on a subprocess has a time limit, so every job ends with
\* some result even if an encoder never exits and no cancel is requested
C24_JobTerminates == thr[1].state = "running" ~> thr[1].state = "finished"

\* C25: a stage whose subprocess exceeded its time limit is terminated and
\* counts as failed: the file the terminated process left behind is not
\* taken as the result of the stage
C25_TimeoutIsFailure == Terminated \notin hist.used_rc

\* the positions of a worker at which a subprocess it started is running
PollLoops == {"cp_run", "pa_item", "pa1_mix", "pa1_add", "pa_concat", "pa_mix",
              "pa_add", "ex_item", "ex_concat", "ex_music", "ex_reenc"}

\* the encoder subprocesses of job j that are alive
Alive(j) ==
    (IF thr[j].state = "running" /\ thr[j].pc \in PollLoops THEN 1 ELSE 0)
    + (IF thr[j].lingering THEN 1 ELSE 0)

\* C26: at most one encoder subprocess of the pipeline is alive: a
\* subprocess is started only after the one before it has exited, also when
\* that one was sent terminate() at a time limit or on cancel
C26_OneSubprocessAlive == \A j \in DOMAIN thr : Alive(j) <= 1

\* C27: create_preview emits 100 only on success: a preview-item job that
\* returned an "Error..." message or "Aborted" has never emitted 100
C27_HundredOnlyOnSuccess ==
    \A j \in DOMAIN thr :
        /\ thr[j].state = "finished" /\ thr[j].task = "preview_item"
        /\ thr[j].result = Aborted \/ StartsWithError(thr[j].result)
        => \A k \in 1..Len(hist.progress[j]) : hist.progress[j][k].p # 100

\* ---- the audio filters of the music steps as functions

\* one audio filter of a chain: volume=a, atrim=start=a:duration=b (b = 0: no
\* duration given), adelay=a|b (milliseconds)
Volume(v) == [f |-> "volume", a |-> v, b |-> 0]
ATrim(t) == [f |-> "atrim", a |-> t.start_time_in_track, b |-> t.duration]
ADelay(t) ==
    [f |-> "adelay", a |-> t.start_time_in_compilation * 100,
     b |-> t.start_time_in_compilation * 100]

\* "if track.start_time_in_track > 0 or track.duration"
Trim(t) ==
    IF t.start_time_in_track > 0 \/ t.duration # 0 THEN <<ATrim(t)>> ELSE <<>>

\* "if track.start_time_in_compilation > 0"
Delay(t) == IF t.start_time_in_compilation > 0 THEN <<ADelay(t)>> ELSE <<>>

\* the positions in the list of tracks of the tracks whose file exists, in
\* order: the audio inputs ("-i") of the command
valid_tracks(ts) ==
    SelectSeq([k \in 1..Len(ts) |-> k], LAMBDA k : ts[k].file_ok)

\* no music is added
NoMix == [inputs |-> <<>>, chains |-> <<>>, bus |-> 0]

\* the volume of "[1:a]volume=0.7[music]" in the add step, in percent
BusVolume == 70

\* single clip path of process_all_clips, several tracks: the chain of the
\* i-th audio input is built from self.music_tracks[i]; volume and trim
music_filter(ts) ==
    [i \in 1..Len(valid_tracks(ts)) |->
        [input |-> i, chain |-> <<Volume(ts[i].volume)>> \o Trim(ts[i])]]

\* multi clip path of process_all_clips, several tracks: the chain of the
\* i-th audio input is built from the i-th valid track
filter_str(ts) ==
    [i \in 1..Len(valid_tracks(ts)) |->
        LET t == ts[valid_tracks(ts)[i]]
        IN [input |-> i, chain |-> <<Volume(t.volume)>> \o Trim(t) \o Delay(t)]]

\* export_video: the chain of a valid track reads the input numbered by the
\* track's position in the whole list (input_idx = i + 1; input 0 is the video)
music_filters(ts) ==
    [i \in 1..Len(valid_tracks(ts)) |->
        LET k == valid_tracks(ts)[i]
        IN [input |-> k,
            chain |-> <<Volume(ts[k].volume)>> \o Trim(ts[k]) \o Delay(ts[k])]]

\* the music of the single clip path: the bus mix and the add step, or the
\* file of the only track given to the add step
single_clip_music(ts) ==
    IF Len(ts) > 1
    THEN IF valid_tracks(ts) = <<>> THEN NoMix
         ELSE [inputs |-> valid_tracks(ts), chains |-> music_filter(ts),
               bus |-> BusVolume]
    ELSE IF ts[1].file_ok
    THEN [inputs |-> <<1>>, chains |-> <<>>, bus |-> BusVolume]
    ELSE NoMix

\* the music of the multi clip path; the file of an only track is used
\* without a test
multi_clip_music(ts) ==
    IF Len(ts) > 1
    THEN IF valid_tracks(ts) = <<>> THEN NoMix
         ELSE [inputs |-> valid_tracks(ts), chains |-> filter_str(ts),
               bus |-> BusVolume]
    ELSE [inputs |-> <<1>>, chains |-> <<>>, bus |-> BusVolume]

\* the music of export_video: one command, no bus volume
export_music(ts) ==
    IF valid_tracks(ts) = <<>> THEN NoMix
    ELSE [inputs |-> valid_tracks(ts), chains |-> music_filters(ts), bus |-> 0]

MusicPaths == {"single_clip", "multi_clip", "export"}

music_of(path, ts) ==
    IF path = "single_clip" THEN single_clip_music(ts)
    ELSE IF path = "multi_clip" THEN multi_clip_music(ts)
    ELSE export_music(ts)

\* the music tracks of the runs: file present or gone, volume in percent,
\* times in tenths of a second (duration 0: None)
MixTracks ==
    [file_ok : BOOLEAN, volume : {50, 70}, start_time_in_track : {0, 20},
     duration : {0, 100}, start_time_in_compilation : {0, 30}]

MixInit ==
    /\ EditorInit
    /\ clip_list = <<>>
    /\ item = <<>>
    /\ track = <<>>
    /\ music_tracks = <<>>
    /\ thr = [j \in {1} |-> NoThread]
    /\ disk = {}
    /\ hist = HistInit
    /\ \E n \in 1..MaxTracks, path \in MusicPaths :
          \E ts \in [1..n -> MixTracks] :
              pf = [a |-> ts, b |-> path, out |-> <<>>]

\* the music step of the path builds its filters from the job's tracks
BuildMusic ==
    /\ pf.out = <<>>
    /\ pf' = [pf EXCEPT !.out = <<music_of(pf.b, pf.a)>>]
    /\ UNCHANGED <<clip_list, item, track, music_tracks, is_processing,
                   thread_active, processing_thread, preview_all_cache,
                   has_pending_music_changes, preview_file, progress_dialog,
                   preview_all_btn, dlg, gui_wait, thr, mq, disk, hist>>

MixNext == BuildMusic

SpecMix == MixInit /\ [][MixNext]_vars

\* the chain has the gain, the trim and the delay of track t
OwnChain(chain, t) ==
    /\ \E k \in 1..Len(chain) : chain[k] = Volume(t.volume)
    /\ \A k \in 1..Len(Trim(t)) : \E m \in 1..Len(chain) : chain[m] = ATrim(t)
    /\ \A k \in 1..Len(Delay(t)) : \E m \in 1..Len(chain) : chain[m] = ADelay(t)

\* C28: in every path that mixes music, with one track or several, the
\* contribution of each track (of each audio input of the command) has the
\* track's own volume, its trim and a delay equal to its start in the
\* compilation
C28_TrackContribution ==
    pf.out # <<>> =>
        LET mix == pf.out[1]
        IN \A p \in 1..Len(mix.inputs) :
              \E c \in 1..Len(mix.chains) :
                  /\ mix.chains[c].input = p
                  /\ OwnChain(mix.chains[c].chain, pf.a[mix.inputs[p]])

\* ---- the video filter expression of an item as a function

\* one filter of a "-vf" chain: its name and its first argument (speeds in
\* percent, angles in degrees)
Filter(f, a) == [f |-> f, a |-> a]

\* VideoEffect.get_ffmpeg_filter of a "filter" effect: the filters of the
\* names it knows, nothing for any other name
get_ffmpeg_filter(effect) ==
    IF effect.effect_type # "filter" THEN <<>>
    ELSE IF effect.name = "grayscale" THEN <<Filter("hue", 0)>>
    ELSE IF effect.name = "sepia" THEN <<Filter("colorchannelmixer", 393)>>
    ELSE IF effect.name = "vignette" THEN <<Filter("vignette", 45)>>
    ELSE IF effect.name = "blur" THEN <<Filter("boxblur", 5)>>
    ELSE IF effect.name = "sharpen" THEN <<Filter("unsharp", 5)>>
    ELSE IF effect.name = "noise" THEN <<Filter("noise", 20)>>
    ELSE IF effect.name = "contrast" THEN <<Filter("eq_contrast", 150)>>
    ELSE IF effect.name = "brightness" THEN <<Filter("eq_brightness", 10)>>
    ELSE <<>>

\* 1/speed_factor, in thousandths (the speed is in percent)
Reciprocal(s) == 100000 \div s

\* a faulty variant of speed_filter that hands the factor to atempo as it is;
\* C31 tells it from the code
speed_filter_unclamped(s) ==
    IF s = 100 THEN <<>>
    ELSE <<Filter("setpts", Reciprocal(s)), Filter("atempo", s)>>

\* VideoEffect("speed", {"factor": s}).get_ffmpeg_filter(): "setpts=<1/s>*PTS"
\* and "atempo=<min(2.0, s)>" for s > 1, "atempo=<max(0.5, s)>" for s < 1
speed_filter(s) ==
    IF s = 100 THEN <<>>
    ELSE <<Filter("setpts", Reciprocal(s)),
           Filter("atempo", IF s > 100 THEN (IF s < 200 THEN s ELSE 200)
                            ELSE (IF s > 50 THEN s ELSE 50))>>

RECURSIVE effect_filters(_)
effect_filters(effects) ==
    IF effects = <<>> THEN <<>>
    ELSE get_ffmpeg_filter(Head(effects)) \o effect_filters(Tail(effects))

\* MediaItem.get_effects_filter_string: the filters of the effects in their
\* order, then the speed filter unless the speed is 1.0 or an effect of type
\* "speed" is in the list
get_effects_filter_string(it) ==
    effect_filters(it.effects)
    \o (IF it.playback_speed # 100
           /\ ~\E k \in 1..Len(it.effects) : it.effects[k].effect_type = "speed"
        THEN speed_filter(it.playback_speed) ELSE <<>>)

\* the rotation of a video: "transpose=1" for 90, "transpose=2,transpose=2"
\* for 180, "transpose=2" for 270 of (rotation + manual_rotation) % 360
rotation_filter(it) ==
    LET total_rotation == (it.rotation + it.manual_rotation) % 360
    IN IF total_rotation = 90 THEN <<Filter("transpose", 1)>>
       ELSE IF total_rotation = 180
       THEN <<Filter("transpose", 2), Filter("transpose", 2)>>
       ELSE IF total_rotation = 270 THEN <<Filter("transpose", 2)>>
       ELSE <<>>

\* the rotation of an image: "rotate=<manual_rotation in radians>"
image_rotation(it) ==
    IF it.manual_rotation # 0 THEN <<Filter("rotate", it.manual_rotation)>>
    ELSE <<>>

\* a faulty variant of vf that puts the rotation in front of the effects; C29
\* tells it from the code
vf_rotation_first(it, base) ==
    (IF it.is_image THEN image_rotation(it) ELSE rotation_filter(it))
    \o get_effects_filter_string(it) \o base

\* vf as the three functions build it: the base, the rotation put in front
\* of it, the effects put in front of both
vf(it, base) ==
    get_effects_filter_string(it)
    \o (IF it.is_image THEN image_rotation(it) ELSE rotation_filter(it))
    \o base

\* the base of create_preview: "scale=480:-2" for an image,
\* "scale=480:-2,fps=24" for a video
create_preview_vf(it) ==
    vf(it, IF it.is_image THEN <<Filter("scale", 480)>>
           ELSE <<Filter("scale", 480), Filter("fps", 24)>>)

\* the base of process_all_clips: "scale=480:-2,fps=24"
process_all_clips_vf(it) == vf(it, <<Filter("scale", 480), Filter("fps", 24)>>)

\* the base of export_video: "scale=-2:720"
export_video_vf(it) == vf(it, <<Filter("scale", 720)>>)

vf_of(task, it) ==
    IF task = "preview_item" THEN create_preview_vf(it)
    ELSE IF task = "preview_all" THEN process_all_clips_vf(it)
    ELSE export_video_vf(it)

\* rotations a probe reports and the buttons of the EditDialog set
ProbedRotations == {0, 90, 270}
ManualRotations == {0, 90, 180, 270}

\* speeds the slider of the EffectsDialog sets (25..400 percent)
FilterSpeeds == {25, 50, 100, 150, 200, 300}

FilterEffects ==
    {<<>>, <<FilterEffect("grayscale")>>, <<FilterEffect("sepia")>>,
     <<FilterEffect("blur"), FilterEffect("grayscale")>>}

FilterItems ==
    {[NewVideoClip EXCEPT !.rotation = e, !.manual_rotation = r,
                          !.playback_speed = p, !.effects = fx] :
        e \in ProbedRotations, r \in ManualRotations, p \in FilterSpeeds,
        fx \in FilterEffects}
    \cup
    {[NewImageItem EXCEPT !.manual_rotation = r, !.playback_speed = p,
                          !.effects = fx] :
        r \in ManualRotations, p \in FilterSpeeds, fx \in FilterEffects}

FilterInit ==
    /\ EditorInit
    /\ clip_list = <<>>
    /\ item = <<>>
    /\ track = <<>>
    /\ music_tracks = <<>>
    /\ thr = [j \in {1} |-> NoThread]
    /\ disk = {}
    /\ hist = HistInit
    /\ \E it \in FilterItems, task \in {"preview_item", "preview_all", "export"} :
          pf = [a |-> it, b |-> task, out |-> <<>>]

\* the pipeline builds the filter expression of the item
BuildFilter ==
    /\ pf.out = <<>>
    /\ pf' = [pf EXCEPT !.out = <<vf_of(pf.b, pf.a)>>]
    /\ UNCHANGED <<clip_list, item, track, music_tracks, is_processing,
                   thread_active, processing_thread, preview_all_cache,
                   has_pending_music_changes, preview_file, progress_dialog,
                   preview_all_btn, dlg, gui_wait, thr, mq, disk, hist>>

FilterNext == BuildFilter

SpecFilter == FilterInit /\ [][FilterNext]_vars

\* the place of a filter in the expression: 1 effect (visual filter or speed),
\* 2 rotation, 3 scale and frame rate
Stage(x) ==
    IF x.f \in {"transpose", "rotate"} THEN 2
    ELSE IF x.f \in {"scale", "fps"} THEN 3
    ELSE 1

\* C29: for every item and both quality profiles the filter expression has
\* all effect filters (visual filters, speed) first, then the rotation, then
\* the scale and frame rate normalization, and no effect filter is left out
C29_EffectsRotationScale ==
    pf.out # <<>> =>
        LET e == pf.out[1]
            fx == get_effects_filter_string(pf.a)
        IN /\ \A m, n \in 1..Len(e) : m < n => Stage(e[m]) <= Stage(e[n])
           /\ SelectSeq(e, LAMBDA x : Stage(x) = 1) = fx
           /\ e[Len(e)].f \in {"scale", "fps"}

\* an expression with visual filters, a speed filter, a rotation and the
\* normalization was built for the export
C29_Witness ==
    /\ pf.out # <<>>
    /\ pf.b = "export"
    /\ Len(pf.a.effects) = 2 /\ pf.a.playback_speed = 300
    /\ ~pf.a.is_image /\ pf.a.rotation = 90 /\ pf.a.manual_rotation = 180
    /\ Len(pf.out[1]) = 6

\* the rotation the sum of the embedded and the manual rotation asks for
Transposes(total_rotation) ==
    IF total_rotation = 90 THEN <<Filter("transpose", 1)>>
    ELSE IF total_rotation = 180
    THEN <<Filter("transpose", 2), Filter("transpose", 2)>>
    ELSE IF total_rotation = 270 THEN <<Filter("transpose", 2)>>
    ELSE <<>>

\* C30: for every item and every pipeline the rotation filter follows from
\* (embedded + manual) mod 360: none for 0, one transpose for 90, two for
\* 180, the opposite transpose for 270
C30_RotationFromTotal ==
    pf.out # <<>> =>
        SelectSeq(pf.out[1], LAMBDA x : Stage(x) = 2)
            = Transposes((pf.a.rotation + pf.a.manual_rotation) % 360)

\* the filters of the name f in an expression
Named(e, f) == SelectSeq(e, LAMBDA x : x.f = f)

\* C31: for every speed factor other than 1 the expression of the item holds
\* exactly one speed filter: it remaps the video time by 1/f and sets the
\* audio tempo to f clamped to [0.5, 2.0]; a factor outside that range is
\* saturated; at factor 1 no speed filter is emitted
C31_SpeedFilter ==
    pf.out # <<>> =>
        LET s == pf.a.playback_speed
            setpts == Named(pf.out[1], "setpts")
            atempo == Named(pf.out[1], "atempo")
        IN IF s = 100 THEN setpts = <<>> /\ atempo = <<>>
           ELSE /\ Len(setpts) = 1 /\ Len(atempo) = 1
                /\ setpts[1].a * s <= 100000 /\ 100000 < (setpts[1].a + 1) * s
                /\ atempo[1].a = (IF s < 50 THEN 50 ELSE IF s > 200 THEN 200 ELSE s)

\* the expression of an item with speed factor 3.0: remap 1/3, tempo 2.0
C31_Witness ==
    /\ pf.out # <<>>
    /\ pf.a.playback_speed = 300
    /\ Named(pf.out[1], "setpts") = <<Filter("setpts", 333)>>
    /\ Named(pf.out[1], "atempo") = <<Filter("atempo", 200)>>

\* ---- the trim sliders

VideoClip(tags, matrix) ==
    LET tagged == IF tags # <<>> THEN tags[1] ELSE 0
        rotation_val == IF matrix[1] < 0 THEN 360 + matrix[1] ELSE matrix[1]
    IN [NewVideoClip EXCEPT
            !.rotation = IF matrix # <<>> THEN rotation_val ELSE tagged]

\* add_videos with a file whose probe succeeds and reports the rotation
\* metadata tags, matrix
add_videos_probed(tags, matrix) ==
    /\ MainWindow
    /\ NItemsMade < NItems
    /\ item' = Append(item, VideoClip(tags, matrix))
    /\ clip_list' = Append(clip_list, NItemsMade + 1)
    /\ hist' = Imported(Dirty(hist), TRUE, 0)
    /\ preview_all_cache' = [preview_all_cache EXCEPT !.signature = NoSig]
    /\ UNCHANGED <<track, music_tracks, is_processing, thread_active,
                   processing_thread, has_pending_music_changes, preview_file,
                   progress_dialog, preview_all_btn, dlg, gui_wait, thr, mq,
                   disk, pf>>

\* the "rotate" tags and the display matrix rotations of the files that are
\* imported: none, quarter turns of both signs, and an angle that is no
\* quarter turn
RotateTags == {<<>>, <<0>>, <<90>>, <<180>>, <<270>>, <<45>>}
DisplayMatrices == {<<>>, <<90>>, <<0 - 90>>, <<0 - 180>>, <<0 - 45>>}

ProbeNext ==
    \/ \E tags \in RotateTags, matrix \in DisplayMatrices :
          add_videos_probed(tags, matrix)
    \/ \E ok \in BOOLEAN : add_images(ok)
    \/ \E r \in Rows : edit_selected(r)
    \/ \E d \in EditRotations : set_rotation(d)
    \/ EditAccept
    \/ EditReject

SpecProbe == Init /\ [][ProbeNext]_vars

\* (rotation + manual_rotation) % 360, as the three pipelines compute it
total_rotation(it) == (it.rotation + it.manual_rotation) % 360

\* C33: in every reachable state the total rotation of every item, embedded
\* plus manual modulo 360, is one of 0, 90, 180 and 270, whatever rotation
\* metadata the probe reported
C33_QuarterTurns ==
    \A id \in 1..Len(item) : total_rotation(item[id]) \in {0, 90, 180, 270}

\* ---- the music editor is cancelled

\* C34: once the user has cancelled the music editor after making changes and
\* has confirmed the discard, the dialog is closed, the list of tracks of the
\* editor is the one the dialog was opened on, and every track of it has the
\* fields it had when the dialog was opened
C34_CancelDiscards ==
    hist.discarded
    => /\ dlg.kind = "none"
       /\ music_tracks = hist.opened.tracks
       /\ \A k \in 1..Len(hist.opened.tracks) :
             track[hist.opened.tracks[k]] = hist.opened.track[hist.opened.tracks[k]]

\* ---- a ready preview is a preview of the item as it is

\* C35: whenever no edit dialog is open and an item has the preview status
\* "ready" and no pending changes, the artifact attached to it is the one
\* that was encoded from the current values of its rendering fields (trim,
\* duration, rotation, speed, effects)
C35_ReadyIsCurrent ==
    \A id \in 1..Len(item) :
        (/\ dlg.kind = "none"
         /\ item[id].preview_status = "ready"
         /\ ~item[id].has_pending_changes)
        => /\ item[id].preview_file = hist.made[id].file
           /\ RenderFields(item[id]) = hist.made[id].fields

\* ---- the music change and the render that follows it

\* C36: once a Preview All job that was started after a music change has
\* ended with the combined file and its finished signal was delivered, and
\* no item has a change pending, check_pending_changes reports nothing
\* pending: the render has cleared the flag of the music change
C36_RenderClearsMusic ==
    \A j \in DOMAIN thr :
        (/\ thr[j].task = "preview_all"
         /\ thr[j].tracks # <<>>
         /\ thr[j].result.tag = "tuple"
         /\ hist.delivered[j] > 0
         /\ \A k \in 1..Len(clip_list) : ~item[clip_list[k]].has_pending_changes)
        => ~check_pending_changes(clip_list, item, has_pending_music_changes)

\* ---- the inputs the chains of the music filter graph read

\* every filter of the chain is the gain, the trim or the delay of track t
ChainOf(chain, t) ==
    \A m \in 1..Len(chain) : chain[m] \in {Volume(t.volume), ATrim(t), ADelay(t)}

\* C37: in every music filter graph each chain reads an audio input that the
\* command has and applies the volume, the trim and the delay of the track
\* whose file is that input, and the chains and the inputs correspond one to
\* one, also when the files of some tracks are missing and skipped
C37_ChainReadsOwnInput ==
    (pf.out # <<>> /\ pf.out[1].chains # <<>>) =>
        LET mix == pf.out[1]
        IN /\ Len(mix.chains) = Len(mix.inputs)
           /\ \A p \in 1..Len(mix.inputs) :
                 \E c \in 1..Len(mix.chains) : mix.chains[c].input = p
           /\ \A c \in 1..Len(mix.chains) :
                 /\ mix.chains[c].input \in 1..Len(mix.inputs)
                 /\ ChainOf(mix.chains[c].chain,
                            pf.a[mix.inputs[mix.chains[c].input]])

\* ---- what a Preview All job leaves in the scratch area

\* C38: after a Preview All job has returned a success, the only file of the
\* job left in the scratch area is the artifact it returned: the
\* intermediates of the items, the manifest, the composite without music and
\* the temporary file of the mixed music are deleted, on every path that
\* returns a success
C38_OnlyArtifactLeft ==
    \A j \in DOMAIN thr :
        (/\ thr[j].task = "preview_all"
         /\ thr[j].state = "finished"
         /\ thr[j].result.tag = "tuple")
        => \A e \in disk :
              (e[1].dir = "TEMP_DIR" /\ e[1].a = j) => e[1] = thr[j].result.file

\* ---- the runner comes back to idle

\* one job whose encoder may stop for good and that may be cancelled
CancelNext ==
    \/ HangNext
    \/ cancel_processing
    \/ CancelReturn

\* the worker thread runs, the GUI thread's event loop runs, and wait()
\* returns once the thread has ended
SpecCancel ==
    /\ PipeInit /\ [][CancelNext]_vars
    /\ WF_vars(HangWorker(1))
    /\ WF_vars(Deliver)
    /\ WF_vars(CancelReturn)

\* the runner takes a submission: no job is marked as in flight, the GUI
\* thread is not blocked and the Preview All button submits
Idle == ~is_processing /\ gui_wait = 0 /\ preview_all_btn = "preview_all"

\* C39: whenever a job has ended (with a success, an error or "Aborted") or
\* was cancelled, the runner comes back to idle, is_processing false, and
\* takes a later submission; is_processing is never left true while no
\* worker runs and no completion is waiting to be handled
C39_ReturnsToIdle ==
    /\ []((Running = {} /\ mq = <<>> /\ gui_wait = 0) => ~is_processing)
    /\ (thr[1].state = "finished") ~> Idle
    /\ (gui_wait # 0) ~> Idle

====
